---- MODULE Spec2Model ----
(***************************************************************************)
(* Model of the oscilloscope overlay of surge-xt                           *)
(* (src/surge-xt/gui/overlays/Oscilloscope.cpp): the waveform engine       *)
(* (WaveformDisplay::process), the parameter stores and the sampling       *)
(* worker (Oscilloscope::pullData) with the UI thread's operations.        *)
(*                                                                         *)
(* Number representation.  Floats are fixed point:                         *)
(*   - sample values, extrema and trigger levels: quarters (1.0 is One),   *)
(*     input samples lie on the half grid (even numbers) so that           *)
(*     numeric_limits<float>::min() (FltMin), which is positive and below  *)
(*     every non-zero sample, has a place of its own;                      *)
(*   - the pixel counter: 1.0 is CounterOne (712, so that a quarter pixel  *)
(*     and the default speed 10^-2.25 = 1/178 are both on the grid);       *)
(*   - the trigger phase: 1.0 is PhaseOne;                                 *)
(*   - dcKill (a double in the code): 1.0 is DcOne; products are rounded   *)
(*     to the nearest step, so that a small enough value is not made       *)
(*     smaller by R, as happens to a double at the bottom of its range;    *)
(*   - dials (the [0,1] slider values held in Parameters): thousandths.    *)
(* The pow() conversions of the dials are tables over the dial values the  *)
(* model uses, each entry being the value the C++ expression yields        *)
(* (rounded to the grid where it is irrational).                           *)
(***************************************************************************)
EXTENDS Integers, Sequences, FiniteSets, TLC

VARIABLES
    wf,        \* WaveformDisplay: params_, peaks, copy and the runtime members
    host,      \* what the engine reads from outside: the component's bounds
               \* (getWidth(), getHeight()) and storage_->samplerate
    obs,       \* observer of the engine: processed samples and trigger events
    osc,       \* Oscilloscope: complete_, channel_selection_, scope_mode_,
               \* pos_, fft_data_, scope_data_
    lk,        \* the owner of each mutex: "free", "worker" or "ui"
    audio,     \* storage_->audioOut: subscription and buffered frames
    wk,        \* the worker thread (pullData): position and locals
    ui,        \* the message thread: position, button and visibility state
    sd,        \* SpectrumDisplay: new_scope_data_, displayed_data_
    wstore,    \* Oscilloscope::WaveformParameters: params_, params_changed_
    ed,        \* a thread inside a setter of the parameter store
    pr,        \* observer of the store: its writes, snapshots and ticks
    twin,      \* a second WaveformDisplay, run beside wf on the same samples
    feed       \* the input of a scenario: what was fed so far and what it did

waveVars == <<wf, host, obs>>

threadVars == <<osc, lk, audio, wk, ui, sd, wstore, ed, pr, twin, feed>>

vars == <<wf, host, obs, osc, lk, audio, wk, ui, sd, wstore, ed, pr, twin, feed>>

----------------------------------------------------------------------------
(* Numeric constants of the code, on the model's grids.                    *)

\* 1.f of juce::jlimit(-1.f, 1.f, ..) and of jmap(.., -1, 1, ..)
One == 4
\* 1.0 of counter = 1.0, counter >= 1.0, counter -= 1.0
CounterOne == 712
\* std::numeric_limits<float>::min(): the smallest positive normal float
FltMin == 1
\* std::numeric_limits<float>::max(); lowest() is -FltMax
FltMax == 1000
\* triggerPhase >= 1.0, on the phase grid (1/632)
PhaseOne == 632
\* the 250.f of R = 1 - 250 / samplerate
DcCutoff == 250
\* 1.0 on the grid of dcKill
DcOne == 1000
\* the 1e-10 below which dcKill is snapped to 0.  On the grid of dcKill it
\* lies, as 1e-10 does for a double, above the magnitudes that a product
\* with R no longer makes smaller (under 96 steps at 48000 Hz).
DenormalLimit == 100

Abs(x) == IF x < 0 THEN -x ELSE x

\* juce::jlimit(lo, hi, v)
jlimit(lo, hi, v) == IF v < lo THEN lo ELSE IF v > hi THEN hi ELSE v

\* juce::jmap<float>(v, -1, 1, h, 0) = h + (v + 1) / 2 * (0 - h).  In float
\* arithmetic FltMin + 1 is 1, so FltMin maps like 0.
jmap(v, h) ==
    LET v0 == IF Abs(v) = FltMin THEN 0 ELSE v
    IN  (h * (One - v0)) \div (2 * One)

----------------------------------------------------------------------------
(* WaveformDisplay::Parameters and the values process() derives from it.   *)

TriggerTypes == {"kTriggerFree", "kTriggerRising", "kTriggerFalling",
                 "kTriggerInternal"}

\* The dials as the sliders are constructed (setDefaultValue), trigger type
\* Free, the three toggles off.
DefaultParameters ==
    [trigger_speed |-> 500, trigger_type |-> "kTriggerFree",
     trigger_level |-> 500, trigger_limit |-> 500, time_window |-> 750,
     amp_window |-> 500, freeze |-> FALSE, dc_kill |-> FALSE,
     sync_draw |-> FALSE]

\* Parameters::counterSpeed(): pow(10, -time_window * 5 + 1.5), in pixels
\* per sample on the counter grid.
counterSpeed(p) ==
    CASE p.time_window = 240 -> 1424   \* 10^0.3    = 1.995
      [] p.time_window = 265 -> 1068   \* 10^0.175  = 1.496
      [] p.time_window = 300 -> 712    \* 10^0      = 1
      [] p.time_window = 360 -> 356    \* 10^-0.3   = 0.501
      [] p.time_window = 420 -> 178    \* 10^-0.6   = 0.251
      [] p.time_window = 750 -> 4      \* 10^-2.25  = 0.00562
      [] OTHER -> 4

\* Parameters::triggerLevel(): trigger_level * 2 - 1, in quarters
triggerLevel(p) == (p.trigger_level * 2 * One) \div 1000 - One

\* Parameters::gain(): pow(10, amp_window * 6 - 3)
gain(p) ==
    CASE p.amp_window = 500 -> 1       \* 10^0
      [] p.amp_window = 1000 -> 1000   \* 10^3
      [] OTHER -> 1

\* static_cast<int>(pow(10, trigger_limit * 4))
triggerLimit(p) ==
    CASE p.trigger_limit = 0 -> 1      \* 10^0
      [] p.trigger_limit = 100 -> 2    \* 10^0.4 = 2.51
      [] p.trigger_limit = 150 -> 3    \* 10^0.6 = 3.98
      [] p.trigger_limit = 500 -> 100  \* 10^2
      [] p.trigger_limit = 1000 -> 10000
      [] OTHER -> 1

\* pow(10, 2.5 * trigger_speed - 5), on the phase grid
triggerSpeed(p) ==
    CASE p.trigger_speed = 1000 -> 2   \* 10^-2.5 = 0.00316 = 2/632
      [] p.trigger_speed = 880 -> 1    \* 10^-2.8 = 0.00158 = 1/632
      [] OTHER -> 0                    \* 10^-3.75 at the default dial

----------------------------------------------------------------------------
(* WaveformDisplay: the members, as constructed.  peaks and copy hold the  *)
(* y of each point (x is j / 2 and never changes); both are empty until    *)
(* the first resized().  The constructor sets counter, max and min; the    *)
(* other runtime members start at zero.                                    *)

WaveformInit ==
    [params_ |-> DefaultParameters,
     peaks |-> << >>, copy |-> << >>,
     index |-> 0, counter |-> CounterOne,
     max |-> FltMin, min |-> FltMin, lastIsMax |-> FALSE,
     previousSample |-> 0, triggerPhase |-> 0, triggerLimitPhase |-> 0,
     dcKill |-> 0, dcFilterTemp |-> 0,
     oob |-> FALSE,       \* an access beyond peaks.size() has happened
     aborted |-> FALSE]   \* std::abort() was called

\* WaveformDisplay::setParameters
setParameters(s, parameters) == [s EXCEPT !.params_ = parameters]

\* resized that also restarts the sweep at column 0
resizedRestartsSweep(s, h) ==
    LET line == [j \in 1..(2 * h.width) |-> jmap(0, h.height)]
    IN  [s EXCEPT !.peaks = line, !.copy = line, !.index = 0]

\* resized that also brings the index back within the new width
resizedClampsIndex(s, h) ==
    LET line == [j \in 1..(2 * h.width) |-> jmap(0, h.height)]
    IN  [s EXCEPT !.peaks = line, !.copy = line,
                  !.index = IF s.index > h.width THEN h.width ELSE s.index]

\* WaveformDisplay::resized: both vectors are cleared and refilled with
\* 2 * getWidth() points at the centerline.
resized(s, h) ==
    LET line == [j \in 1..(2 * h.width) |-> jmap(0, h.height)]
    IN  [s EXCEPT !.peaks = line, !.copy = line]

----------------------------------------------------------------------------
(* WaveformDisplay::process, one sample of the loop at a time.             *)

\* R * dcKill with R = 1 - 250 / samplerate, the product rounded to the
\* nearest step of the grid, the same way for both signs
DcFeedback(dk, sr) ==
    LET r == (2 * (sr - DcCutoff) * Abs(dk) + sr) \div (2 * sr)
    IN  IF dk < 0 THEN -r ELSE r

\* a sample on the grid of dcKill
ToDouble(f) == (f * DcOne) \div One

\* static_cast<float>(..) of a value on the grid of dcKill: the sample on
\* the half grid, rounded towards zero
ToFloat(x) ==
    LET r == 2 * ((Abs(x) * One) \div (2 * DcOne))
    IN  IF x < 0 THEN -r ELSE r

\* the DC filter without the test against 1e-10
DcFilterNoSnap(s, f, h) ==
    [s EXCEPT !.dcKill = ToDouble(f) - ToDouble(s.dcFilterTemp)
                             + DcFeedback(s.dcKill, h.samplerate),
              !.dcFilterTemp = f]

\* // DC filter
DcFilter(s, f, h) ==
    LET dk == ToDouble(f) - ToDouble(s.dcFilterTemp)
                  + DcFeedback(s.dcKill, h.samplerate)
    IN  [s EXCEPT !.dcKill = IF Abs(dk) < DenormalLimit THEN 0 ELSE dk,
                  !.dcFilterTemp = f]

\* the filter with a zero output and a zero previous input
DcAtRest(s) == s.dcKill = 0 /\ s.dcFilterTemp = 0

\* // Gain: the sample after dc_kill selection, gain and clamp (s is the
\* state after the DC filter step)
GainedSample(s, f) ==
    jlimit(-One, One, (IF s.params_.dc_kill THEN ToFloat(s.dcKill) ELSE f)
                          * gain(s.params_))

\* the internal oscillator running whatever the trigger type is
TriggerPhaseAlways(s) ==
    LET ph == s.triggerPhase + triggerSpeed(s.params_)
    IN  IF ph >= PhaseOne THEN ph - PhaseOne ELSE ph

\* // Triggers: the phase of the internal oscillator after this sample
TriggerPhaseNext(s) ==
    IF s.params_.trigger_type = "kTriggerInternal"
    THEN LET ph == s.triggerPhase + triggerSpeed(s.params_)
         IN  IF ph >= PhaseOne THEN ph - PhaseOne ELSE ph
    ELSE s.triggerPhase

\* Fired with the Free comparison one column early (index + 1 >= getWidth())
FiredFreeEarly(s, sample, h) ==
    CASE s.params_.trigger_type = "kTriggerInternal" ->
            s.triggerPhase + triggerSpeed(s.params_) >= PhaseOne
      [] s.params_.trigger_type = "kTriggerRising" ->
            sample >= triggerLevel(s.params_) /\ s.previousSample < triggerLevel(s.params_)
      [] s.params_.trigger_type = "kTriggerFalling" ->
            sample <= triggerLevel(s.params_) /\ s.previousSample > triggerLevel(s.params_)
      [] s.params_.trigger_type = "kTriggerFree" ->
            s.index + 1 >= h.width
      [] OTHER -> FALSE

\* Fired with the edge tests not strict in the previous sample
FiredEdgeLoose(s, sample, h) ==
    CASE s.params_.trigger_type = "kTriggerInternal" ->
            s.triggerPhase + triggerSpeed(s.params_) >= PhaseOne
      [] s.params_.trigger_type = "kTriggerRising" ->
            sample >= triggerLevel(s.params_) /\ s.previousSample <= triggerLevel(s.params_)
      [] s.params_.trigger_type = "kTriggerFalling" ->
            sample <= triggerLevel(s.params_) /\ s.previousSample >= triggerLevel(s.params_)
      [] s.params_.trigger_type = "kTriggerFree" ->
            s.index >= h.width
      [] OTHER -> FALSE

\* // Triggers: the value of `trigger` after the switch
Fired(s, sample, h) ==
    CASE s.params_.trigger_type = "kTriggerInternal" ->
            s.triggerPhase + triggerSpeed(s.params_) >= PhaseOne
      [] s.params_.trigger_type = "kTriggerRising" ->
            sample >= triggerLevel(s.params_) /\ s.previousSample < triggerLevel(s.params_)
      [] s.params_.trigger_type = "kTriggerFalling" ->
            sample <= triggerLevel(s.params_) /\ s.previousSample > triggerLevel(s.params_)
      [] s.params_.trigger_type = "kTriggerFree" ->
            s.index >= h.width
      [] OTHER -> FALSE

\* Suppressed without the exemption of the Free trigger
SuppressedAlsoFree(s, trigger, phase) ==
    /\ trigger
    /\ phase < triggerLimit(s.params_)
    /\ s.params_.trigger_type # "kTriggerInternal"

\* // if there's a retrigger, but too fast, kill it (phase is
\* triggerLimitPhase after its increment)
Suppressed(s, trigger, phase) ==
    /\ trigger
    /\ phase < triggerLimit(s.params_)
    /\ s.params_.trigger_type # "kTriggerFree"
    /\ s.params_.trigger_type # "kTriggerInternal"

\* the switch with a default case that only breaks
TriggersDefaulting(s, sample, h) ==
    [s EXCEPT !.triggerPhase = TriggerPhaseNext(s),
              !.triggerLimitPhase = s.triggerLimitPhase + 1]

\* the switch and the lockout together: the members they change; the
\* default case calls std::abort() before the lockout counter is touched
Triggers(s, sample, h) ==
    IF s.params_.trigger_type \notin TriggerTypes
    THEN [s EXCEPT !.aborted = TRUE]
    ELSE [s EXCEPT !.triggerPhase = TriggerPhaseNext(s),
                   !.triggerLimitPhase = s.triggerLimitPhase + 1]

\* `trigger` when the @ trigger block is reached
Accepted(s, sample, h) ==
    /\ Fired(s, sample, h)
    /\ ~Suppressed(s, Fired(s, sample, h), s.triggerLimitPhase + 1)

\* // zero peaks after the last one
ZeroPeaks(s, h) ==
    [s EXCEPT !.peaks = [j \in 1..Len(s.peaks) |->
                            IF j > 2 * s.index /\ j <= 2 * h.width
                            THEN jmap(0, h.height) ELSE s.peaks[j]],
              !.oob = s.oob \/ (s.index < h.width /\ 2 * h.width > Len(s.peaks))]

\* // copy to a buffer for sync drawing
CopyPeaks(s, h) ==
    [s EXCEPT !.copy = [j \in 1..Len(s.copy) |->
                           IF j <= 2 * h.width /\ j <= Len(s.peaks)
                           THEN s.peaks[j] ELSE s.copy[j]],
              !.oob = s.oob \/ 2 * h.width > Len(s.copy)]

\* ResetSweep that leaves the lockout counter running
ResetSweepKeepLimitPhase(s) ==
    [s EXCEPT !.index = 0, !.counter = CounterOne,
              !.max = -FltMax, !.min = FltMax]

\* ResetSweep that leaves the pixel counter running
ResetSweepKeepCounter(s) ==
    [s EXCEPT !.index = 0,
              !.max = -FltMax, !.min = FltMax,
              !.triggerLimitPhase = 0]

\* ResetSweep that starts the pixel counter at 0
ResetSweepCounterZero(s) ==
    [s EXCEPT !.index = 0, !.counter = 0,
              !.max = -FltMax, !.min = FltMax,
              !.triggerLimitPhase = 0]

\* // reset everything
ResetSweep(s) ==
    [s EXCEPT !.index = 0, !.counter = CounterOne,
              !.max = -FltMax, !.min = FltMax,
              !.triggerLimitPhase = 0]

\* the trigger block without the zero fill
OnTriggerKeepsStale(s, h) == ResetSweep(CopyPeaks(s, h))

\* // @ trigger
OnTrigger(s, h) == ResetSweep(CopyPeaks(ZeroPeaks(s, h), h))

\* // @ sample: the two ifs in order
Extrema(s, sample) ==
    LET a == IF sample > s.max
             THEN [s EXCEPT !.max = sample, !.lastIsMax = TRUE] ELSE s
    IN  IF sample < a.min
        THEN [a EXCEPT !.min = sample, !.lastIsMax = FALSE] ELSE a

\* the column write of the pixel boundary
WriteColumn(s, h) ==
    LET max_Y == jmap(s.max, h.height)
        min_Y == jmap(s.min, h.height)
        first == IF s.lastIsMax THEN min_Y ELSE max_Y
        second == IF s.lastIsMax THEN max_Y ELSE min_Y
    IN  [s EXCEPT !.peaks = [j \in 1..Len(s.peaks) |->
                                IF j = 2 * s.index + 1 THEN first
                                ELSE IF j = 2 * s.index + 2 THEN second
                                ELSE s.peaks[j]],
                  !.oob = s.oob \/ 2 * s.index + 2 > Len(s.peaks),
                  !.index = s.index + 1]

\* PixelBoundary that keeps only the fractional part of the counter
PixelBoundaryFractional(s, h) ==
    LET c == s.counter + counterSpeed(s.params_)
    IN  IF c >= CounterOne
        THEN LET w == IF s.index < h.width THEN WriteColumn(s, h) ELSE s
             IN  [w EXCEPT !.max = -FltMax, !.min = FltMax,
                           !.counter = c % CounterOne]
        ELSE [s EXCEPT !.counter = c]

\* counter += counterSpeed and // @ counter
PixelBoundary(s, h) ==
    LET c == s.counter + counterSpeed(s.params_)
    IN  IF c >= CounterOne
        THEN LET w == IF s.index < h.width THEN WriteColumn(s, h) ELSE s
             IN  [w EXCEPT !.max = -FltMax, !.min = FltMax,
                           !.counter = c - CounterOne]
        ELSE [s EXCEPT !.counter = c]

\* // store for edge-triggers
StorePrevious(s, sample) == [s EXCEPT !.previousSample = sample]

\* one iteration of `for (float &f : data)`
ProcessSample(s, f, h) ==
    LET s1 == DcFilter(s, f, h)
        sample == GainedSample(s1, f)
        s2 == Triggers(s1, sample, h)
        s3 == IF Accepted(s1, sample, h) THEN OnTrigger(s2, h) ELSE s2
        s4 == PixelBoundary(Extrema(s3, sample), h)
    IN  IF s2.aborted THEN s2 ELSE StorePrevious(s4, sample)

\* the loop over data[lo..hi], split in halves (the iterations run in order)
RECURSIVE ProcessLoop(_, _, _, _, _)
ProcessLoop(s, data, lo, hi, h) ==
    IF lo > hi \/ s.aborted THEN s
    ELSE IF lo = hi THEN ProcessSample(s, data[lo], h)
    ELSE LET mid == (lo + hi) \div 2
             half == ProcessLoop(s, data, lo, mid, h)
         IN  ProcessLoop(half, data, mid + 1, hi, h)

\* process without the test of params_.freeze
processIgnoresFreeze(s, data, h) == ProcessLoop(s, data, 1, Len(data), h)

\* WaveformDisplay::process
process(s, data, h) ==
    IF s.params_.freeze THEN s ELSE ProcessLoop(s, data, 1, Len(data), h)

----------------------------------------------------------------------------
(* Oscilloscope, its worker and the message thread: the state.             *)

\* the accumulator length: internal::fftSize, scaled down
FftSize == 4
\* SpectrumDisplay::dbMin, dbMax
dbMin == -100
dbMax == 0

\* Oscilloscope::Oscilloscope: the member initialisers
OscInit ==
    [complete_ |-> FALSE, channel_selection_ |-> "STEREO",
     scope_mode_ |-> "SPECTRUM", pos_ |-> 0,
     fft_data_ |-> [i \in 1..FftSize |-> 0],
     scope_data_ |-> [i \in 1..(FftSize \div 2) |-> 0],
     oob |-> FALSE]   \* a write beyond fft_data_.size() has happened

\* SpectrumDisplay::SpectrumDisplay: new_scope_data_ filled with dbMin
SpectrumInit ==
    [new_scope_data_ |-> [i \in 1..(FftSize \div 2) |-> dbMin],
     displayed_data_ |-> [i \in 1..(FftSize \div 2) |-> 0]]

\* WaveformParameters::WaveformParameters: the store, clean
StoreInit == [params_ |-> DefaultParameters, params_changed_ |-> FALSE]

LocksInit ==
    [data_lock_ |-> "free", lock_ |-> "free", spectrum_lock_ |-> "free",
     params_lock_ |-> "free"]

\* no setter is running
SetterIdle == [pc |-> "idle", kind |-> "none", field |-> "none", value |-> 0]

\* the observer of the store: the writes done and the setters returned so
\* far, the value of params_ after each write (history[k + 1] after k
\* writes), the ticks begun, the setters that had returned when the last
\* tick began, the number of writes held by the last snapshot, and how the
\* last tick ended ("skipped" by the tests of updateDrawing, "unchanged" on
\* std::nullopt, "delivered" to the engine)
StoreObsInit ==
    [writes |-> 0, returned |-> 0, history |-> <<DefaultParameters>>,
     ticks |-> 0, atBegin |-> 0, taken |-> 0, last |-> "none"]

\* no scenario is being fed
FeedIdle == [kind |-> "none"]

\* the state in which no thread of the overlay is running (the engines alone)
ThreadsIdle ==
    /\ osc = OscInit
    /\ lk = LocksInit
    /\ audio = [subscribed |-> FALSE, left |-> << >>, right |-> << >>, pushed |-> 0,
                redundant |-> {}]
    /\ wk = [pc |-> "done", cs |-> "OFF", data |-> << >>, i |-> 0, sample |-> 0,
             idle |-> "no"]
    /\ ui = [pc |-> "gone", left |-> TRUE, right |-> TRUE, visible |-> TRUE,
             arg |-> "none", snapshot |-> DefaultParameters, ops |-> 0]
    /\ sd = SpectrumInit
    /\ wstore = StoreInit
    /\ ed = SetterIdle
    /\ pr = StoreObsInit
    /\ twin = WaveformInit

----------------------------------------------------------------------------
(* The observer of the engine.  It keeps, apart from the engine's own      *)
(* members: the gained sample of the previously processed sample, the      *)
(* number of samples processed since the last accepted trigger, the        *)
(* columns written since then, whether the width has changed since then,   *)
(* the trigger events of the last process() call, and the number of        *)
(* process() calls that were made while params_.freeze was set.            *)

ObsInit ==
    [prev |-> 0, since |-> -1, cols |-> 0, wfix |-> TRUE,
     calls |-> 0, sets |-> 0, resizes |-> 0, log |-> << >>, frozen |-> 0]

\* What happens to sample f in engine state s: an event is logged when the
\* switch sets `trigger`.
ObserveSample(o, s, f, h) ==
    LET s1 == DcFilter(s, f, h)
        sample == GainedSample(s1, f)
        fired == Fired(s1, sample, h)
        acc == Accepted(s1, sample, h)
        after == ProcessSample(s, f, h)
        wrote == IF after.index = (IF acc THEN 0 ELSE s.index) THEN 0 ELSE 1
        dist == IF o.since < 0 THEN -1 ELSE o.since + 1
        event == [type |-> s.params_.trigger_type, sample |-> sample,
                  prev |-> o.prev, level |-> triggerLevel(s.params_),
                  limit |-> triggerLimit(s.params_), since |-> dist,
                  phase |-> s.triggerLimitPhase + 1,
                  cols |-> o.cols, width |-> h.width,
                  wfix |-> o.wfix, accepted |-> acc]
    IN  [o EXCEPT !.prev = sample,
                  !.since = IF acc THEN 0 ELSE dist,
                  !.cols = (IF acc THEN 0 ELSE o.cols) + wrote,
                  !.wfix = acc \/ o.wfix,
                  !.log = IF fired THEN Append(o.log, event) ELSE o.log]

\* the observer and the engine over data[lo..hi]: so is [o, s]
RECURSIVE ObserveLoop(_, _, _, _, _)
ObserveLoop(so, data, lo, hi, h) ==
    IF lo > hi \/ so.s.aborted THEN so
    ELSE IF lo = hi
    THEN [o |-> ObserveSample(so.o, so.s, data[lo], h),
          s |-> ProcessSample(so.s, data[lo], h)]
    ELSE LET mid == (lo + hi) \div 2
             half == ObserveLoop(so, data, lo, mid, h)
         IN  ObserveLoop(half, data, mid + 1, hi, h)

Observe(o, s, data, h) ==
    LET o0 == [o EXCEPT !.calls = o.calls + 1, !.log = << >>]
    IN  IF s.params_.freeze THEN [o0 EXCEPT !.frozen = o.frozen + 1]
        ELSE ObserveLoop([o |-> o0, s |-> s], data, 1, Len(data), h).o

----------------------------------------------------------------------------
(* WaveSpec: the engine alone, driven by process(), setParameters() and    *)
(* bounds changes in any order.                                            *)

MaxCalls == 4        \* process() calls in a run
MaxSets == 1         \* setParameters() calls in a run
MaxResizes == 1      \* bounds changes in a run
MaxWidth == 3        \* widest display
LongLen == 315       \* length of the long silent block

\* raw input samples: -1.0, 0, 0.5
SampleVals == {-4, 0, 2}

Widths == {MaxWidth - 1, MaxWidth}

LongBlock == [i \in 1..LongLen |-> 0]

\* the blocks process() is called with: every one-sample block, and as the
\* first block of a run also a long silent one
Blocks(o) ==
    {<<f>> : f \in SampleVals} \cup (IF o.calls = 0 THEN {LongBlock} ELSE {})

\* a trigger type that is none of the four: trigger_type_'s onUpdate
\* rejects the values from kNumTriggerTypes on and casts every other int
InvalidTriggerType == "static_cast<TriggerType>(-1)"

\* the parameter snapshots setParameters() is called with: Free at three
\* time windows (1.5, 1 and 0.5 pixels per sample), Internal, Rising and
\* Falling at level 0 with limit 2 and at level 0.5 with limit 3, one edge
\* set with DC-kill, one with the highest gain, the defaults frozen, and
\* the defaults with a trigger type outside the enumeration
EdgeSets ==
    {[DefaultParameters EXCEPT !.trigger_type = t, !.trigger_level = c[1],
                               !.trigger_limit = c[2], !.time_window = 360] :
        t \in {"kTriggerRising", "kTriggerFalling"},
        c \in {<<500, 100>>, <<750, 150>>}}

ParamSets ==
    {[DefaultParameters EXCEPT !.trigger_type = "kTriggerFree", !.time_window = w] :
        w \in {265, 300, 360}}
    \cup {[DefaultParameters EXCEPT !.trigger_type = "kTriggerInternal",
                                    !.trigger_speed = 1000,
                                    !.trigger_limit = 1000, !.time_window = 300]}
    \cup EdgeSets
    \cup {[DefaultParameters EXCEPT !.trigger_type = "kTriggerRising",
                                    !.trigger_limit = 100, !.time_window = 360,
                                    !.dc_kill = TRUE],
          [DefaultParameters EXCEPT !.trigger_type = "kTriggerFalling",
                                    !.trigger_level = 750, !.trigger_limit = 150,
                                    !.time_window = 360, !.amp_window = 1000],
          [DefaultParameters EXCEPT !.freeze = TRUE],
          [DefaultParameters EXCEPT !.trigger_type = InvalidTriggerType]}

WaveInit ==
    /\ wf = WaveformInit
    /\ host = [width |-> 0, height |-> 4, samplerate |-> 250, resizing |-> FALSE]
    /\ obs = ObsInit
    /\ ThreadsIdle
    /\ feed = FeedIdle

\* the worker calls process(data)
WProcess ==
    /\ ~wf.aborted
    /\ obs.calls < MaxCalls
    /\ \E data \in Blocks(obs) :
          /\ wf' = process(wf, data, host)
          /\ obs' = Observe(obs, wf, data, host)
    /\ UNCHANGED <<host, threadVars>>

\* updateDrawing hands a snapshot to setParameters
WSetParameters ==
    /\ ~wf.aborted
    /\ ~host.resizing
    /\ obs.sets < MaxSets
    /\ \E p \in ParamSets :
          /\ p # wf.params_
          /\ wf' = setParameters(wf, p)
    /\ obs' = [obs EXCEPT !.sets = obs.sets + 1]
    /\ UNCHANGED <<host, threadVars>>

\* setBounds: the component's width changes, resized() is about to run
WSetBounds ==
    /\ ~wf.aborted
    /\ ~host.resizing
    /\ obs.resizes < MaxResizes
    /\ \E w \in Widths :
          /\ w # host.width
          /\ host' = [host EXCEPT !.width = w, !.resizing = TRUE]
    /\ obs' = [obs EXCEPT !.resizes = obs.resizes + 1, !.wfix = FALSE]
    /\ UNCHANGED <<wf, threadVars>>

\* resized() runs
WResized ==
    /\ ~wf.aborted
    /\ host.resizing
    /\ wf' = resized(wf, host)
    /\ host' = [host EXCEPT !.resizing = FALSE]
    /\ UNCHANGED <<obs, threadVars>>

WaveNext == WProcess \/ WSetParameters \/ WSetBounds \/ WResized

WaveSpec == WaveInit /\ [][WaveNext]_vars

----------------------------------------------------------------------------
(* Spec: the overlay with its threads.  The worker runs pullData, the      *)
(* message thread runs one operation of the overlay at a time, the audio   *)
(* thread pushes frames into audioOut while it is subscribed.  A step is   *)
(* one lock acquisition, one wait, or the code between two of them; the    *)
(* body of process() is split at the trigger so that the states inside a   *)
(* block are states of the model.                                          *)

MaxAudio == 2        \* blocks the audio thread delivers in a run
MaxOps == 3          \* operations the message thread runs before the destructor

\* the frames (left, right) the audio thread delivers
AudioFrames == {<<-4, 4>>}

\* the lengths of the blocks it delivers
BlockLens == {1, FftSize}

\* the widths the waveform display is laid out with
ThreadWidths == {1, 2}

\* SpectrumDisplay::lowFreq, highFreq
lowFreq == 10
highFreq == 24000

\* the magnitudes the transform produces, in hundredths of fftSize:
\* silence, 40 dB below fftSize and 6 dB above it
MagVals == {0, 1, 200}

\* gainToDecibels(magnitude) - gainToDecibels(fftSize): silence is the
\* -100 dB floor of gainToDecibels less the level of fftSize
NormalisedDb(m) ==
    CASE m = 0 -> -172
      [] m = 1 -> -40
      [] OTHER -> 6

Bins == FftSize \div 2

\* Mix whose stereo case adds the channels without halving the sum
MixSum(cs, left, right) ==
    [i \in 1..Len(left) |->
        CASE cs = "STEREO" -> left[i] + right[i]
          [] cs = "RIGHT" -> right[i]
          [] OTHER -> left[i]]

\* the lambda of std::transform, `dataL = dataR`, or dataL as it is
Mix(cs, left, right) ==
    [i \in 1..Len(left) |->
        CASE cs = "STEREO" -> (left[i] + right[i]) \div 2
          [] cs = "RIGHT" -> right[i]
          [] OTHER -> left[i]]

\* what the window and the transform can leave in fft_data_: the bins'
\* magnitudes in front.  A silent window has a silent spectrum, and as the
\* window table sums to fftSize / 2, a magnitude above fftSize takes a
\* sample beyond 2.0.  What is behind the magnitudes is rewritten by the
\* next blocks before it is read again.
Transformed(fft) ==
    IF \A i \in 1..FftSize : fft[i] = 0
    THEN {[i \in 1..FftSize |-> 0]}
    ELSE LET mags == IF \A i \in 1..FftSize : Abs(fft[i]) <= 2 * One
                     THEN {m \in MagVals : m <= 100} ELSE MagVals
         IN  {[i \in 1..FftSize |-> IF i <= Bins THEN m[i] ELSE 0] :
                  m \in [1..Bins -> mags]}

\* the loop over the bins without juce::jlimit
calculateSpectrumDataUnclamped(fft, h) ==
    [i \in 1..Bins |->
        IF (i - 1) * h.samplerate < lowFreq * FftSize
               \/ (i - 1) * h.samplerate > highFreq * FftSize
        THEN dbMin
        ELSE NormalisedDb(fft[i])]

\* Oscilloscope::calculateSpectrumData: the loop over the bins (bin i of
\* the code is entry i + 1), after the transform left fft in fft_data_
calculateSpectrumData(fft, h) ==
    [i \in 1..Bins |->
        IF (i - 1) * h.samplerate < lowFreq * FftSize
               \/ (i - 1) * h.samplerate > highFreq * FftSize
        THEN dbMin
        ELSE jlimit(dbMin, dbMax, NormalisedDb(fft[i]))]

\* the test of the spectrum branch with > in place of >=
RingOverfills(pos, sz) == pos + sz > FftSize

\* `if (pos_ + sz >= internal::fftSize)`
RingFills(pos, sz) == pos + sz >= FftSize

\* std::move(first, last, fft_data_.begin() + at): fft_data_ after it
MoveInto(fft, block, at) ==
    [i \in 1..FftSize |->
        IF i > at /\ i <= at + Len(block) THEN block[i - at] ELSE fft[i]]

\* the channel the two buttons select (Oscilloscope::toggleChannel)
SelectedChannel(left, right) ==
    IF left /\ right THEN "STEREO"
    ELSE IF left THEN "LEFT"
    ELSE IF right THEN "RIGHT"
    ELSE "OFF"

\* channels_off_.notify_all(): a worker blocked in the wait is woken
notify_all(w) == IF w.pc = "blocked" THEN [w EXCEPT !.pc = "woken"] ELSE w

\* the overlay after its constructor: the worker started, the audio source
\* subscribed, the displays not laid out yet
Init ==
    /\ wf = WaveformInit
    /\ host = [width |-> 0, height |-> 4, samplerate |-> 250, resizing |-> FALSE]
    /\ obs = ObsInit
    /\ osc = OscInit
    /\ lk = LocksInit
    /\ audio = [subscribed |-> TRUE, left |-> << >>, right |-> << >>, pushed |-> 0,
                redundant |-> {}]
    /\ wk = [pc |-> "loop", cs |-> "OFF", data |-> << >>, i |-> 0, sample |-> 0,
             idle |-> "no"]
    /\ ui = [pc |-> "idle", left |-> TRUE, right |-> TRUE, visible |-> TRUE,
             arg |-> "none", snapshot |-> DefaultParameters, ops |-> 0]
    /\ sd = SpectrumInit
    /\ wstore = StoreInit
    /\ ed = SetterIdle
    /\ pr = StoreObsInit
    /\ twin = WaveformInit
    /\ feed = FeedIdle

\* audioOut.subscribe(): the source delivers frames from now on
subscribe(a) == [a EXCEPT !.subscribed = TRUE]

\* unsubscribe that flips the subscription
unsubscribeToggles(a, who) ==
    [a EXCEPT !.subscribed = ~a.subscribed,
              !.redundant = IF a.subscribed THEN @ ELSE @ \cup {who}]

\* audioOut.unsubscribe(): the source stops delivering; `redundant` keeps
\* the callers whose call found the source already unsubscribed
unsubscribe(a, who) ==
    [a EXCEPT !.subscribed = FALSE,
              !.redundant = IF a.subscribed THEN @ ELSE @ \cup {who}]

\* the audio thread: a block of frames arrives while the source is subscribed
AudioPush ==
    /\ audio.subscribed
    /\ audio.pushed < MaxAudio
    /\ \E f \in AudioFrames, n \in BlockLens :
          audio' = [audio EXCEPT !.left = audio.left \o [i \in 1..n |-> f[1]],
                                 !.right = audio.right \o [i \in 1..n |-> f[2]],
                                 !.pushed = audio.pushed + 1]
    /\ UNCHANGED <<twin, feed, ed, pr, wf, host, obs, osc, lk, wk, ui, sd, wstore>>

\* Oscilloscope::pullData, `while (!complete_.load())`
WkLoop ==
    /\ wk.pc = "loop"
    /\ wk' = [wk EXCEPT !.pc = IF osc.complete_ THEN "done" ELSE "lock"]
    /\ UNCHANGED <<twin, feed, ed, pr, wf, host, obs, osc, lk, audio, ui, sd, wstore>>

\* `std::unique_lock l(data_lock_)` and the test of channel_selection_
WkLock ==
    /\ wk.pc = "lock"
    /\ lk.data_lock_ = "free"
    /\ lk' = [lk EXCEPT !.data_lock_ = "worker"]
    /\ wk' = [wk EXCEPT !.pc = IF osc.channel_selection_ = "OFF"
                                THEN "unsubscribe" ELSE "popall",
                        !.cs = osc.channel_selection_]
    /\ UNCHANGED <<twin, feed, ed, pr, wf, host, obs, osc, audio, ui, sd, wstore>>

\* `storage_->audioOut.unsubscribe()` of the idle path
WkUnsubscribe ==
    /\ wk.pc = "unsubscribe"
    /\ audio' = unsubscribe(audio, "worker")
    /\ wk' = [wk EXCEPT !.pc = "wait"]
    /\ UNCHANGED <<twin, feed, ed, pr, wf, host, obs, osc, lk, ui, sd, wstore>>

\* channels_off_.wait(l, pred): the predicate is evaluated with the lock
\* held; the wait returns when it holds, and otherwise releases the lock
\* and blocks.  (idle keeps whether the worker has blocked in the wait, and
\* whether it has come back from it.)
WkWait ==
    /\ wk.pc = "wait"
    /\ IF osc.channel_selection_ # "OFF" \/ osc.complete_
       THEN /\ wk' = [wk EXCEPT !.pc = "subscribe"]
            /\ UNCHANGED lk
       ELSE /\ wk' = [wk EXCEPT !.pc = "blocked", !.idle = "blocked"]
            /\ lk' = [lk EXCEPT !.data_lock_ = "free"]
    /\ UNCHANGED <<twin, feed, ed, pr, wf, host, obs, osc, audio, ui, sd, wstore>>

\* a condition variable may wake without a notification
WkSpuriousWake ==
    /\ wk.pc = "blocked"
    /\ wk' = [wk EXCEPT !.pc = "woken"]
    /\ UNCHANGED <<twin, feed, ed, pr, wf, host, obs, osc, lk, audio, ui, sd, wstore>>

\* the woken wait takes the lock again and evaluates the predicate again
WkReacquire ==
    /\ wk.pc = "woken"
    /\ lk.data_lock_ = "free"
    /\ lk' = [lk EXCEPT !.data_lock_ = "worker"]
    /\ wk' = [wk EXCEPT !.pc = "wait"]
    /\ UNCHANGED <<twin, feed, ed, pr, wf, host, obs, osc, audio, ui, sd, wstore>>

\* `storage_->audioOut.subscribe(); continue;` (l is released)
WkSubscribe ==
    /\ wk.pc = "subscribe"
    /\ audio' = subscribe(audio)
    /\ lk' = [lk EXCEPT !.data_lock_ = "free"]
    /\ wk' = [wk EXCEPT !.pc = "loop",
                        !.idle = IF wk.idle = "blocked" THEN "resumed" ELSE wk.idle]
    /\ UNCHANGED <<twin, feed, ed, pr, wf, host, obs, osc, ui, sd, wstore>>

\* WkPopall that goes to sleep without l.unlock()
WkPopallKeepLock ==
    /\ wk.pc = "popall"
    /\ audio' = [audio EXCEPT !.left = << >>, !.right = << >>]
    /\ wk' = [wk EXCEPT !.pc = IF audio.left = << >> THEN "sleep"
                              ELSE IF osc.scope_mode_ = "WAVEFORM"
                              THEN "process" ELSE "accumulate",
                        !.data = IF audio.left = << >> THEN wk.data
                                 ELSE Mix(wk.cs, audio.left, audio.right)]
    /\ UNCHANGED <<twin, feed, ed, pr, wf, host, obs, osc, lk, ui, sd, wstore>>

\* popall(), the empty test, the mix into dataL and the test of scope_mode_
WkPopall ==
    /\ wk.pc = "popall"
    /\ audio' = [audio EXCEPT !.left = << >>, !.right = << >>]
    /\ IF audio.left = << >>
       THEN /\ wk' = [wk EXCEPT !.pc = "sleep"]
            /\ lk' = [lk EXCEPT !.data_lock_ = "free"]
       ELSE /\ wk' = [wk EXCEPT !.pc = IF osc.scope_mode_ = "WAVEFORM"
                                       THEN "process" ELSE "accumulate",
                                !.data = Mix(wk.cs, audio.left, audio.right)]
            /\ UNCHANGED lk
    /\ UNCHANGED <<twin, feed, ed, pr, wf, host, obs, osc, ui, sd, wstore>>

\* `std::this_thread::sleep_for(...); continue;`
WkSleep ==
    /\ wk.pc = "sleep"
    /\ wk' = [wk EXCEPT !.pc = "loop"]
    /\ UNCHANGED <<twin, feed, ed, pr, wf, host, obs, osc, lk, audio, ui, sd, wstore>>

\* WaveformDisplay::process entered without taking lock_
WkProcessNoLock ==
    /\ wk.pc = "process"
    /\ wk' = [wk EXCEPT !.pc = IF wf.params_.freeze THEN "return" ELSE "sample",
                        !.i = 1]
    /\ UNCHANGED <<twin, feed, ed, pr, wf, host, obs, osc, lk, audio, ui, sd, wstore>>

\* process entered without lock_ and after the iteration's lock was dropped
WkProcessUnlocked ==
    /\ wk.pc = "process"
    /\ lk' = [lk EXCEPT !.data_lock_ = "free"]
    /\ wk' = [wk EXCEPT !.pc = IF wf.params_.freeze THEN "return" ELSE "sample",
                        !.i = 1]
    /\ UNCHANGED <<twin, feed, ed, pr, wf, host, obs, osc, audio, ui, sd, wstore>>

\* WaveformDisplay::process, `std::lock_guard g(lock_)` and the freeze test
WkProcessLock ==
    /\ wk.pc = "process"
    /\ lk.lock_ = "free"
    /\ lk' = [lk EXCEPT !.lock_ = "worker"]
    /\ wk' = [wk EXCEPT !.pc = IF wf.params_.freeze THEN "return" ELSE "sample",
                        !.i = 1]
    /\ UNCHANGED <<twin, feed, ed, pr, wf, host, obs, osc, audio, ui, sd, wstore>>

\* one sample up to `if (trigger)`: the DC filter, the gain, the switch and
\* the lockout
WkSample ==
    /\ wk.pc = "sample"
    /\ LET f == wk.data[wk.i]
           s1 == DcFilter(wf, f, host)
           sample == GainedSample(s1, f)
           s2 == Triggers(s1, sample, host)
       IN  /\ wf' = s2
           /\ wk' = [wk EXCEPT !.sample = sample,
                               !.pc = IF s2.aborted THEN "aborted"
                                      ELSE IF Accepted(s1, sample, host)
                                      THEN "zero" ELSE "track"]
    /\ UNCHANGED <<twin, feed, ed, pr, host, obs, osc, lk, audio, ui, sd, wstore>>

\* // zero peaks after the last one
WkZeroPeaks ==
    /\ wk.pc = "zero"
    /\ wf' = ZeroPeaks(wf, host)
    /\ wk' = [wk EXCEPT !.pc = "copy"]
    /\ UNCHANGED <<twin, feed, ed, pr, host, obs, osc, lk, audio, ui, sd, wstore>>

\* // copy to a buffer for sync drawing
WkCopyPeaks ==
    /\ wk.pc = "copy"
    /\ wf' = CopyPeaks(wf, host)
    /\ wk' = [wk EXCEPT !.pc = "reset"]
    /\ UNCHANGED <<twin, feed, ed, pr, host, obs, osc, lk, audio, ui, sd, wstore>>

\* // reset everything
WkResetSweep ==
    /\ wk.pc = "reset"
    /\ wf' = ResetSweep(wf)
    /\ wk' = [wk EXCEPT !.pc = "track"]
    /\ UNCHANGED <<twin, feed, ed, pr, host, obs, osc, lk, audio, ui, sd, wstore>>

\* the rest of the sample: the extrema, the pixel boundary, previousSample
WkTrack ==
    /\ wk.pc = "track"
    /\ wf' = StorePrevious(PixelBoundary(Extrema(wf, wk.sample), host), wk.sample)
    /\ wk' = [wk EXCEPT !.i = wk.i + 1,
                        !.pc = IF wk.i < Len(wk.data) THEN "sample" ELSE "return"]
    /\ UNCHANGED <<twin, feed, ed, pr, host, obs, osc, lk, audio, ui, sd, wstore>>

\* process returns (lock_ released) and the iteration ends (l released)
WkProcessReturn ==
    /\ wk.pc = "return"
    /\ lk' = [lk EXCEPT !.lock_ = "free", !.data_lock_ = "free"]
    /\ wk' = [wk EXCEPT !.pc = "loop", !.data = << >>, !.i = 0, !.sample = 0]
    /\ UNCHANGED <<twin, feed, ed, pr, wf, host, obs, osc, audio, ui, sd, wstore>>

\* the spectrum branch up to updateScopeData: the block goes into fft_data_
\* at pos_; a full window is transformed into scope_data_
WkAccumulate ==
    /\ wk.pc = "accumulate"
    /\ LET sz == Len(wk.data)
           mv == FftSize - osc.pos_
       IN  IF RingFills(osc.pos_, sz)
           THEN /\ \E t \in Transformed(MoveInto(osc.fft_data_,
                                                 SubSeq(wk.data, 1, mv), osc.pos_)) :
                      osc' = [osc EXCEPT !.fft_data_ = t,
                                         !.scope_data_ = calculateSpectrumData(t, host)]
                /\ wk' = [wk EXCEPT !.pc = "publish"]
                /\ UNCHANGED lk
           ELSE /\ osc' = [osc EXCEPT !.fft_data_ = MoveInto(osc.fft_data_, wk.data,
                                                            osc.pos_),
                                      !.pos_ = osc.pos_ + sz]
                /\ wk' = [wk EXCEPT !.pc = "loop", !.data = << >>]
                /\ lk' = [lk EXCEPT !.data_lock_ = "free"]
    /\ UNCHANGED <<twin, feed, ed, pr, wf, host, obs, audio, ui, sd, wstore>>

\* SpectrumDisplay::updateScopeData, `std::lock_guard l(data_lock_)`
WkPublishLock ==
    /\ wk.pc = "publish"
    /\ lk.spectrum_lock_ = "free"
    /\ lk' = [lk EXCEPT !.spectrum_lock_ = "worker"]
    /\ wk' = [wk EXCEPT !.pc = "publishing"]
    /\ UNCHANGED <<twin, feed, ed, pr, wf, host, obs, osc, audio, ui, sd, wstore>>

\* SpectrumDisplay::updateScopeData: the move into new_scope_data_
WkPublish ==
    /\ wk.pc = "publishing"
    /\ sd' = [sd EXCEPT !.new_scope_data_ = osc.scope_data_]
    /\ lk' = [lk EXCEPT !.spectrum_lock_ = "free"]
    /\ wk' = [wk EXCEPT !.pc = "carry"]
    /\ UNCHANGED <<twin, feed, ed, pr, wf, host, obs, osc, audio, ui, wstore>>

\* the leftovers go to the front of fft_data_, `pos_ = leftovers`, and the
\* iteration ends (l released)
WkCarry ==
    /\ wk.pc = "carry"
    /\ LET sz == Len(wk.data)
           mv == FftSize - osc.pos_
       IN  osc' = [osc EXCEPT !.fft_data_ = MoveInto(osc.fft_data_,
                                                     SubSeq(wk.data, mv + 1, sz), 0),
                              !.pos_ = sz - mv,
                              !.oob = osc.oob \/ sz - mv > FftSize]
    /\ lk' = [lk EXCEPT !.data_lock_ = "free"]
    /\ wk' = [wk EXCEPT !.pc = "loop", !.data = << >>]
    /\ UNCHANGED <<twin, feed, ed, pr, wf, host, obs, audio, ui, sd, wstore>>

WorkerNext ==
    \/ WkLoop \/ WkLock \/ WkUnsubscribe \/ WkWait \/ WkSpuriousWake
    \/ WkReacquire \/ WkSubscribe \/ WkPopall \/ WkSleep
    \/ WkProcessLock \/ WkSample \/ WkZeroPeaks \/ WkCopyPeaks \/ WkResetSweep
    \/ WkTrack \/ WkProcessReturn
    \/ WkAccumulate \/ WkPublishLock \/ WkPublish \/ WkCarry

(* The message thread.  It runs one operation at a time; an operation    *)
(* that takes a lock is entered first and then waits for the lock.         *)

\* static float dbToY(float db, int height)
dbToY(db, h) == (h * (dbMax - db)) \div (dbMax - dbMin)

\* a click on the L or R button: the toggle state flips, onToggle is called
UiClickChannel ==
    /\ ui.pc = "idle"
    /\ ui.ops < MaxOps
    /\ \/ ui' = [ui EXCEPT !.ops = ui.ops + 1, !.pc = "toggleChannel", !.left = ~ui.left]
       \/ ui' = [ui EXCEPT !.ops = ui.ops + 1, !.pc = "toggleChannel", !.right = ~ui.right]
    /\ UNCHANGED <<twin, feed, ed, pr, wf, host, obs, osc, lk, audio, wk, sd, wstore>>

\* toggleChannel without channels_off_.notify_all()
UiToggleChannelNoNotify ==
    /\ ui.pc = "toggleChannel"
    /\ lk.data_lock_ = "free"
    /\ osc' = [osc EXCEPT !.channel_selection_ = SelectedChannel(ui.left, ui.right)]
    /\ ui' = [ui EXCEPT !.pc = "idle"]
    /\ UNCHANGED <<twin, feed, ed, pr, wf, host, obs, lk, audio, wk, sd, wstore>>

\* Oscilloscope::toggleChannel
UiToggleChannel ==
    /\ ui.pc = "toggleChannel"
    /\ lk.data_lock_ = "free"
    /\ osc' = [osc EXCEPT !.channel_selection_ = SelectedChannel(ui.left, ui.right)]
    /\ wk' = notify_all(wk)
    /\ ui' = [ui EXCEPT !.pc = "idle"]
    /\ UNCHANGED <<twin, feed, ed, pr, wf, host, obs, lk, audio, sd, wstore>>

\* toggleParam bound to params_.freeze (the freeze button's onToggle)
UiToggleParam ==
    /\ ui.pc = "idle"
    /\ ui.ops < MaxOps
    /\ wstore' = [params_ |-> [wstore.params_ EXCEPT !.freeze = ~wstore.params_.freeze],
                  params_changed_ |-> TRUE]
    /\ ui' = [ui EXCEPT !.ops = ui.ops + 1]
    /\ UNCHANGED <<twin, feed, ed, pr, wf, host, obs, osc, lk, audio, wk, sd>>

\* the editor's idle timer calls updateDrawing
UiTick ==
    /\ ui.pc = "idle"
    /\ ui.ops < MaxOps
    /\ ui' = [ui EXCEPT !.ops = ui.ops + 1, !.pc = "updateDrawing"]
    /\ UNCHANGED <<twin, feed, ed, pr, wf, host, obs, osc, lk, audio, wk, sd, wstore>>

\* Oscilloscope::updateDrawing up to waveform_.setParameters: data_lock_,
\* the two tests and getParamsIfDirty.  The spectrum store has no control
\* that is shown, so it is never dirty.
UiUpdateDrawing ==
    /\ ui.pc = "updateDrawing"
    /\ lk.data_lock_ = "free"
    /\ IF osc.channel_selection_ # "OFF" /\ osc.scope_mode_ = "WAVEFORM"
          /\ wstore.params_changed_
       THEN /\ wstore' = [wstore EXCEPT !.params_changed_ = FALSE]
            /\ ui' = [ui EXCEPT !.pc = "setParameters", !.snapshot = wstore.params_]
            /\ lk' = [lk EXCEPT !.data_lock_ = "ui"]
       ELSE /\ ui' = [ui EXCEPT !.pc = "idle"]
            /\ UNCHANGED <<wstore, lk>>
    /\ UNCHANGED <<twin, feed, ed, pr, wf, host, obs, osc, audio, wk, sd>>

\* waveform_.setParameters(std::move(*params)), then updateDrawing returns
UiSetParameters ==
    /\ ui.pc = "setParameters"
    /\ lk.lock_ = "free"
    /\ wf' = setParameters(wf, ui.snapshot)
    /\ lk' = [lk EXCEPT !.data_lock_ = "free"]
    /\ ui' = [ui EXCEPT !.pc = "idle", !.snapshot = DefaultParameters]
    /\ UNCHANGED <<twin, feed, ed, pr, host, obs, osc, audio, wk, sd, wstore>>

\* a click on the scope mode switch
UiClickScopeMode ==
    /\ ui.pc = "idle"
    /\ ui.ops < MaxOps
    /\ \E type \in {"WAVEFORM", "SPECTRUM"} :
          ui' = [ui EXCEPT !.ops = ui.ops + 1, !.pc = "changeScopeType", !.arg = type]
    /\ UNCHANGED <<twin, feed, ed, pr, wf, host, obs, osc, lk, audio, wk, sd, wstore>>

\* Oscilloscope::changeScopeType
UiChangeScopeType ==
    /\ ui.pc = "changeScopeType"
    /\ lk.data_lock_ = "free"
    /\ osc' = [osc EXCEPT !.scope_mode_ = ui.arg,
                          !.scope_data_ = [i \in 1..Bins |->
                               IF ui.arg = "WAVEFORM" THEN 0 ELSE dbMin]]
    /\ ui' = [ui EXCEPT !.pc = "idle", !.arg = "none"]
    /\ UNCHANGED <<twin, feed, ed, pr, wf, host, obs, lk, audio, wk, sd, wstore>>

\* Oscilloscope::visibilityChanged
UiVisibilityChanged ==
    /\ ui.pc = "idle"
    /\ ui.ops < MaxOps
    /\ ui' = [ui EXCEPT !.ops = ui.ops + 1, !.visible = ~ui.visible]
    /\ audio' = IF ~ui.visible THEN subscribe(audio)
                 ELSE unsubscribe(audio, "visibility")
    /\ UNCHANGED <<twin, feed, ed, pr, wf, host, obs, osc, lk, wk, sd, wstore>>

\* waveform_.setBounds: the width changes and resized() is called
UiSetBounds ==
    /\ ui.pc = "idle"
    /\ ui.ops < MaxOps
    /\ \E w \in ThreadWidths \ {host.width} :
          host' = [host EXCEPT !.width = w]
    /\ ui' = [ui EXCEPT !.ops = ui.ops + 1, !.pc = "resized"]
    /\ UNCHANGED <<twin, feed, ed, pr, wf, obs, osc, lk, audio, wk, sd, wstore>>

\* WaveformDisplay::resized
UiResized ==
    /\ ui.pc = "resized"
    /\ lk.lock_ = "free"
    /\ wf' = resized(wf, host)
    /\ ui' = [ui EXCEPT !.pc = "idle"]
    /\ UNCHANGED <<twin, feed, ed, pr, host, obs, osc, lk, audio, wk, sd, wstore>>

\* the visible display is asked to paint
UiRepaint ==
    /\ ui.pc = "idle"
    /\ ui.ops < MaxOps
    /\ ui.visible
    /\ ui' = [ui EXCEPT !.ops = ui.ops + 1, !.pc = "paint"]
    /\ UNCHANGED <<twin, feed, ed, pr, wf, host, obs, osc, lk, audio, wk, sd, wstore>>

\* WaveformDisplay::paint, `std::lock_guard l(lock_)`, or SpectrumDisplay::paint,
\* `std::lock_guard l(data_lock_)`
UiPaintLock ==
    /\ ui.pc = "paint"
    /\ IF osc.scope_mode_ = "WAVEFORM"
       THEN /\ lk.lock_ = "free"
            /\ lk' = [lk EXCEPT !.lock_ = "ui"]
            /\ ui' = [ui EXCEPT !.pc = "paintWaveform"]
       ELSE /\ lk.spectrum_lock_ = "free"
            /\ lk' = [lk EXCEPT !.spectrum_lock_ = "ui"]
            /\ ui' = [ui EXCEPT !.pc = "paintSpectrum"]
    /\ UNCHANGED <<twin, feed, ed, pr, wf, host, obs, osc, audio, wk, sd, wstore>>

\* WaveformDisplay::paint that takes data_lock_ while it holds lock_
UiPaintWaveformUnderDataLock ==
    /\ ui.pc = "paintWaveform"
    /\ lk.data_lock_ = "free"
    /\ lk' = [lk EXCEPT !.lock_ = "free"]
    /\ ui' = [ui EXCEPT !.pc = "idle"]
    /\ UNCHANGED <<twin, feed, ed, pr, wf, host, obs, osc, audio, wk, sd, wstore>>

\* WaveformDisplay::paint: the path is built from params_ and the points
UiPaintWaveform ==
    /\ ui.pc = "paintWaveform"
    /\ lk' = [lk EXCEPT !.lock_ = "free"]
    /\ ui' = [ui EXCEPT !.pc = "idle"]
    /\ UNCHANGED <<twin, feed, ed, pr, wf, host, obs, osc, audio, wk, sd, wstore>>

\* SpectrumDisplay::paint: each bin in band moves from displayed_data_
\* towards dbToY(new_scope_data_), all the way or not at all
UiPaintSpectrum ==
    /\ ui.pc = "paintSpectrum"
    /\ \E mu \in {0, 1} :
          sd' = [sd EXCEPT !.displayed_data_ = [i \in 1..Bins |->
                    IF (i - 1) * host.samplerate < lowFreq * FftSize
                           \/ (i - 1) * host.samplerate > highFreq * FftSize
                    THEN sd.displayed_data_[i]
                    ELSE sd.displayed_data_[i] * (1 - mu)
                             + dbToY(sd.new_scope_data_[i], host.height) * mu]]
    /\ lk' = [lk EXCEPT !.spectrum_lock_ = "free"]
    /\ ui' = [ui EXCEPT !.pc = "idle"]
    /\ UNCHANGED <<twin, feed, ed, pr, wf, host, obs, osc, audio, wk, wstore>>

\* Oscilloscope::~Oscilloscope, `complete_.store(true)`
UiDestroy ==
    /\ ui.pc = "idle"
    /\ osc' = [osc EXCEPT !.complete_ = TRUE]
    /\ ui' = [ui EXCEPT !.pc = "turnOff"]
    /\ UNCHANGED <<twin, feed, ed, pr, wf, host, obs, lk, audio, wk, sd, wstore>>

\* the destructor's block without channels_off_.notify_all()
UiDtorTurnOffNoNotify ==
    /\ ui.pc = "turnOff"
    /\ lk.data_lock_ = "free"
    /\ osc' = [osc EXCEPT !.channel_selection_ = "OFF"]
    /\ ui' = [ui EXCEPT !.pc = "join"]
    /\ UNCHANGED <<twin, feed, ed, pr, wf, host, obs, lk, audio, wk, sd, wstore>>

\* `{ std::lock_guard l(data_lock_); channel_selection_ = OFF;
\*    channels_off_.notify_all(); }`
UiDtorTurnOff ==
    /\ ui.pc = "turnOff"
    /\ lk.data_lock_ = "free"
    /\ osc' = [osc EXCEPT !.channel_selection_ = "OFF"]
    /\ wk' = notify_all(wk)
    /\ ui' = [ui EXCEPT !.pc = "join"]
    /\ UNCHANGED <<twin, feed, ed, pr, wf, host, obs, lk, audio, sd, wstore>>

\* `fft_thread_.join()` returns when pullData has returned
UiDtorJoin ==
    /\ ui.pc = "join"
    /\ wk.pc = "done"
    /\ ui' = [ui EXCEPT !.pc = "unsubscribe"]
    /\ UNCHANGED <<twin, feed, ed, pr, wf, host, obs, osc, lk, audio, wk, sd, wstore>>

\* the destructor returning without its final unsubscribe
UiDtorReturnSubscribed ==
    /\ ui.pc = "unsubscribe"
    /\ ui' = [ui EXCEPT !.pc = "gone"]
    /\ UNCHANGED <<twin, feed, ed, pr, wf, host, obs, osc, lk, audio, wk, sd, wstore>>

\* `storage_->audioOut.unsubscribe()`, and the destructor returns
UiDtorUnsubscribe ==
    /\ ui.pc = "unsubscribe"
    /\ audio' = unsubscribe(audio, "destructor")
    /\ ui' = [ui EXCEPT !.pc = "gone"]
    /\ UNCHANGED <<twin, feed, ed, pr, wf, host, obs, osc, lk, wk, sd, wstore>>

\* the steps of the destructor after its first
DtorNext == UiDtorTurnOff \/ UiDtorJoin \/ UiDtorUnsubscribe

UiNext ==
    \/ UiClickChannel \/ UiToggleChannel \/ UiToggleParam
    \/ UiTick \/ UiUpdateDrawing \/ UiSetParameters
    \/ UiClickScopeMode \/ UiChangeScopeType \/ UiVisibilityChanged
    \/ UiSetBounds \/ UiResized
    \/ UiRepaint \/ UiPaintLock \/ UiPaintWaveform \/ UiPaintSpectrum
    \/ UiDestroy \/ DtorNext

Next == AudioPush \/ WorkerNext \/ UiNext

Spec == Init /\ [][Next]_vars

\* the steps of the worker that the scheduler owes it: all but the spurious
\* wakeup, which may never come
WorkerRun ==
    \/ WkLoop \/ WkLock \/ WkUnsubscribe \/ WkWait
    \/ WkReacquire \/ WkSubscribe \/ WkPopall \/ WkSleep
    \/ WkProcessLock \/ WkSample \/ WkZeroPeaks \/ WkCopyPeaks \/ WkResetSweep
    \/ WkTrack \/ WkProcessReturn
    \/ WkAccumulate \/ WkPublishLock \/ WkPublish \/ WkCarry

\* Spec with both threads scheduled: the worker keeps running and a
\* destructor that was entered keeps running
FairSpec == Init /\ [][Next]_vars /\ WF_vars(WorkerRun) /\ WF_vars(DtorNext)

\* the steps of the message thread inside an operation it has begun
UiRun ==
    \/ UiToggleChannel \/ UiUpdateDrawing \/ UiSetParameters
    \/ UiChangeScopeType \/ UiResized
    \/ UiPaintLock \/ UiPaintWaveform \/ UiPaintSpectrum

\* FairSpec with a message thread that finishes every operation it begins
LiveSpec ==
    Init /\ [][Next]_vars /\ WF_vars(WorkerRun) /\ WF_vars(DtorNext) /\ WF_vars(UiRun)

\* the overlay after both channel buttons were switched off and the worker
\* went idle: the selection Off, the source unsubscribed by the worker, the
\* worker blocked in the wait, no lock held, nothing delivered or laid out
\* yet, the freeze button clicked before that or not, and the message thread
\* with MaxOps operations to come
IdleInit ==
    /\ wf = WaveformInit
    /\ host = [width |-> 0, height |-> 4, samplerate |-> 250, resizing |-> FALSE]
    /\ obs = ObsInit
    /\ osc = [OscInit EXCEPT !.channel_selection_ = "OFF"]
    /\ lk = LocksInit
    /\ audio = [subscribed |-> FALSE, left |-> << >>, right |-> << >>, pushed |-> 0,
                redundant |-> {}]
    /\ wk = [pc |-> "blocked", cs |-> "OFF", data |-> << >>, i |-> 0, sample |-> 0,
             idle |-> "blocked"]
    /\ ui = [pc |-> "idle", left |-> FALSE, right |-> FALSE, visible |-> TRUE,
             arg |-> "none", snapshot |-> DefaultParameters, ops |-> 0]
    /\ sd = SpectrumInit
    /\ wstore \in {StoreInit,
                   [params_ |-> [DefaultParameters EXCEPT !.freeze = TRUE],
                    params_changed_ |-> TRUE]}
    /\ ed = SetterIdle
    /\ pr = StoreObsInit
    /\ twin = WaveformInit
    /\ feed = FeedIdle

\* the overlay with its threads, from the idle state on
IdleSpec == IdleInit /\ [][Next]_vars

----------------------------------------------------------------------------
(* ParamSpec: the parameter store between its setters and the redraw tick. *)
(* A setter runs on a thread of its own, one statement at a time; the      *)
(* message thread runs ticks, channel clicks and scope mode clicks;        *)
(* getParamsIfDirty copies params_ in two parts.  The worker is not        *)
(* running: none of these operations waits for it.                         *)

MaxEdits == 2        \* setter calls in a run
MaxTicks == 2        \* redraw ticks in a run

\* the setter calls: updateParameter bound to a dial with the value set,
\* toggleParam bound to a flag
Edits ==
    {[kind |-> "update", field |-> "trigger_level", value |-> 750],
     [kind |-> "update", field |-> "time_window", value |-> 300],
     [kind |-> "toggle", field |-> "freeze", value |-> 0]}

\* the members of Parameters that are not flags
Dials == {"trigger_speed", "trigger_type", "trigger_level", "trigger_limit",
          "time_window", "amp_window"}

\* the copy `return params_` makes, part by part: the dials of `from` over `to`
CopyDials(to, from) ==
    [f \in DOMAIN to |-> IF f \in Dials THEN from[f] ELSE to[f]]

\* the flags of `from` over `to`
CopyFlags(to, from) ==
    [f \in DOMAIN to |-> IF f \in Dials THEN to[f] ELSE from[f]]

ParamInit ==
    /\ wf = WaveformInit
    /\ host = [width |-> 0, height |-> 4, samplerate |-> 250, resizing |-> FALSE]
    /\ obs = ObsInit
    /\ osc = OscInit
    /\ lk = LocksInit
    /\ audio = [subscribed |-> TRUE, left |-> << >>, right |-> << >>, pushed |-> 0,
                redundant |-> {}]
    /\ wk = [pc |-> "done", cs |-> "OFF", data |-> << >>, i |-> 0, sample |-> 0,
             idle |-> "no"]
    /\ ui = [pc |-> "idle", left |-> TRUE, right |-> TRUE, visible |-> TRUE,
             arg |-> "none", snapshot |-> DefaultParameters, ops |-> 0]
    /\ sd = SpectrumInit
    /\ wstore = StoreInit
    /\ ed = SetterIdle
    /\ pr = StoreObsInit
    /\ twin = WaveformInit
    /\ feed = FeedIdle

\* a control calls its setter
EdBegin ==
    /\ ed.pc = "idle"
    /\ pr.writes < MaxEdits
    /\ \E e \in Edits :
          ed' = [pc |-> "lock", kind |-> e.kind, field |-> e.field, value |-> e.value]
    /\ UNCHANGED <<twin, feed, wf, host, obs, osc, lk, audio, wk, ui, sd, wstore, pr>>

\* the setter going on without taking params_lock_
EdNoLock ==
    /\ ed.pc = "lock"
    /\ ed' = [ed EXCEPT !.pc = "flag"]
    /\ UNCHANGED <<twin, feed, wf, host, obs, osc, lk, audio, wk, ui, sd, wstore, pr>>

\* updateParameter / toggleParam, `std::lock_guard l(params_lock_)`
EdLock ==
    /\ ed.pc = "lock"
    /\ lk.params_lock_ = "free"
    /\ lk' = [lk EXCEPT !.params_lock_ = "setter"]
    /\ ed' = [ed EXCEPT !.pc = "flag"]
    /\ UNCHANGED <<twin, feed, wf, host, obs, osc, audio, wk, ui, sd, wstore, pr>>

\* `params_changed_ = true`
EdFlag ==
    /\ ed.pc = "flag"
    /\ wstore' = [wstore EXCEPT !.params_changed_ = TRUE]
    /\ ed' = [ed EXCEPT !.pc = "write"]
    /\ UNCHANGED <<twin, feed, wf, host, obs, osc, lk, audio, wk, ui, sd, pr>>

\* `param = value` or `param = !param`
EdWrite ==
    /\ ed.pc = "write"
    /\ LET v == IF ed.kind = "toggle" THEN ~wstore.params_[ed.field] ELSE ed.value
           params == [wstore.params_ EXCEPT ![ed.field] = v]
       IN  /\ wstore' = [wstore EXCEPT !.params_ = params]
           /\ pr' = [pr EXCEPT !.writes = pr.writes + 1,
                               !.history = Append(pr.history, params)]
    /\ ed' = [ed EXCEPT !.pc = "unlock"]
    /\ UNCHANGED <<twin, feed, wf, host, obs, osc, lk, audio, wk, ui, sd>>

\* the setter returns (params_lock_ released)
EdUnlock ==
    /\ ed.pc = "unlock"
    /\ lk' = [lk EXCEPT !.params_lock_ = "free"]
    /\ ed' = SetterIdle
    /\ pr' = [pr EXCEPT !.returned = pr.returned + 1]
    /\ UNCHANGED <<twin, feed, wf, host, obs, osc, audio, wk, ui, sd, wstore>>

\* the editor's idle timer calls updateDrawing
PmTick ==
    /\ ui.pc = "idle"
    /\ pr.ticks < MaxTicks
    /\ ui' = [ui EXCEPT !.pc = "tick"]
    /\ pr' = [pr EXCEPT !.ticks = pr.ticks + 1, !.atBegin = pr.returned]
    /\ UNCHANGED <<twin, feed, wf, host, obs, osc, lk, audio, wk, sd, wstore, ed>>

\* updateDrawing that empties the store before the tests and drops the
\* snapshot when the selection is Off or the mode is not the store's
PmUpdateDrawingTakesFirst ==
    /\ ui.pc = "tick"
    /\ lk.data_lock_ = "free"
    /\ IF osc.channel_selection_ # "OFF" /\ osc.scope_mode_ = "WAVEFORM"
       THEN /\ ui' = [ui EXCEPT !.pc = "getParamsIfDirty"]
            /\ lk' = [lk EXCEPT !.data_lock_ = "ui"]
            /\ UNCHANGED <<pr, wstore>>
       ELSE /\ ui' = [ui EXCEPT !.pc = "idle"]
            /\ pr' = [pr EXCEPT !.last = "skipped"]
            /\ wstore' = [wstore EXCEPT !.params_changed_ = FALSE]
            /\ UNCHANGED lk
    /\ UNCHANGED <<twin, feed, wf, host, obs, osc, audio, wk, sd, ed>>

\* Oscilloscope::updateDrawing, `std::lock_guard l(data_lock_)` and the tests
\* of channel_selection_ and scope_mode_
PmUpdateDrawing ==
    /\ ui.pc = "tick"
    /\ lk.data_lock_ = "free"
    /\ IF osc.channel_selection_ # "OFF" /\ osc.scope_mode_ = "WAVEFORM"
       THEN /\ ui' = [ui EXCEPT !.pc = "getParamsIfDirty"]
            /\ lk' = [lk EXCEPT !.data_lock_ = "ui"]
            /\ UNCHANGED pr
       ELSE /\ ui' = [ui EXCEPT !.pc = "idle"]
            /\ pr' = [pr EXCEPT !.last = "skipped"]
            /\ UNCHANGED lk
    /\ UNCHANGED <<twin, feed, wf, host, obs, osc, audio, wk, sd, wstore, ed>>

\* getParamsIfDirty that returns params_ and leaves params_changed_ set
PmGetParamsKeepDirty ==
    /\ ui.pc = "getParamsIfDirty"
    /\ lk.params_lock_ = "free"
    /\ IF wstore.params_changed_
       THEN /\ ui' = [ui EXCEPT !.pc = "copyDials"]
            /\ lk' = [lk EXCEPT !.params_lock_ = "ui"]
            /\ UNCHANGED pr
       ELSE /\ ui' = [ui EXCEPT !.pc = "idle"]
            /\ lk' = [lk EXCEPT !.data_lock_ = "free"]
            /\ pr' = [pr EXCEPT !.last = "unchanged"]
    /\ UNCHANGED <<twin, feed, wf, host, obs, osc, audio, wk, sd, wstore, ed>>

\* WaveformParameters::getParamsIfDirty, `std::lock_guard l(params_lock_)`,
\* the test of params_changed_ and `params_changed_ = false`; on
\* std::nullopt updateDrawing returns
PmGetParamsIfDirty ==
    /\ ui.pc = "getParamsIfDirty"
    /\ lk.params_lock_ = "free"
    /\ IF wstore.params_changed_
       THEN /\ wstore' = [wstore EXCEPT !.params_changed_ = FALSE]
            /\ ui' = [ui EXCEPT !.pc = "copyDials"]
            /\ lk' = [lk EXCEPT !.params_lock_ = "ui"]
            /\ UNCHANGED pr
       ELSE /\ ui' = [ui EXCEPT !.pc = "idle"]
            /\ lk' = [lk EXCEPT !.data_lock_ = "free"]
            /\ pr' = [pr EXCEPT !.last = "unchanged"]
            /\ UNCHANGED wstore
    /\ UNCHANGED <<twin, feed, wf, host, obs, osc, audio, wk, sd, ed>>

\* `return params_`, the dials
PmCopyDials ==
    /\ ui.pc = "copyDials"
    /\ ui' = [ui EXCEPT !.pc = "copyFlags",
                        !.snapshot = CopyDials(ui.snapshot, wstore.params_)]
    /\ UNCHANGED <<twin, feed, wf, host, obs, osc, lk, audio, wk, sd, wstore, ed, pr>>

\* `return params_`, the flags; getParamsIfDirty returns (params_lock_
\* released)
PmCopyFlags ==
    /\ ui.pc = "copyFlags"
    /\ ui' = [ui EXCEPT !.pc = "apply",
                        !.snapshot = CopyFlags(ui.snapshot, wstore.params_)]
    /\ lk' = [lk EXCEPT !.params_lock_ = "free"]
    /\ pr' = [pr EXCEPT !.taken = pr.writes]
    /\ UNCHANGED <<twin, feed, wf, host, obs, osc, audio, wk, sd, wstore, ed>>

\* waveform_.setParameters(std::move(*params)), then updateDrawing returns
PmSetParameters ==
    /\ ui.pc = "apply"
    /\ lk.lock_ = "free"
    /\ wf' = setParameters(wf, ui.snapshot)
    /\ lk' = [lk EXCEPT !.data_lock_ = "free"]
    /\ ui' = [ui EXCEPT !.pc = "idle", !.snapshot = DefaultParameters]
    /\ pr' = [pr EXCEPT !.last = "delivered"]
    /\ UNCHANGED <<twin, feed, host, obs, osc, audio, wk, sd, wstore, ed>>

ParamNext ==
    \/ EdBegin \/ EdLock \/ EdFlag \/ EdWrite \/ EdUnlock
    \/ PmTick \/ PmUpdateDrawing \/ PmGetParamsIfDirty
    \/ PmCopyDials \/ PmCopyFlags \/ PmSetParameters
    \/ UiClickChannel \/ UiToggleChannel
    \/ UiClickScopeMode \/ UiChangeScopeType

ParamSpec == ParamInit /\ [][ParamNext]_vars

----------------------------------------------------------------------------
(* SilenceSpec: the engine fed sample by sample (process() with blocks of  *)
(* one sample), first with a few samples of any value and then, from some  *)
(* sample on, with zeros for ever.                                         *)

MaxPrior == 2        \* samples fed one by one before the input goes silent
SettleLen == 600     \* length of the constant block the engine starts from
ZerosSeen == 600     \* the observer counts no more zeros than this

\* storage_->samplerate in these runs: R is 0, 0.75, 0.9943 and 0.9948
SilenceRates == {250, 1000, 44100, 48000}

\* the observer: whether the input has gone silent, the samples fed before
\* that, the zeros (up to ZerosSeen) fed while the filter was not yet at
\* rest, and whether a zero was fed to the filter at rest
SilenceObsInit ==
    [kind |-> "silence", silent |-> FALSE, prior |-> 0, zeros |-> 0, after |-> FALSE]

\* the engine after process() of a block of SettleLen samples of one value
SilenceInit ==
    /\ \E sr \in SilenceRates :
          host = [width |-> 0, height |-> 4, samplerate |-> sr, resizing |-> FALSE]
    /\ \E dc \in BOOLEAN, c \in SampleVals :
          wf = process(setParameters(WaveformInit,
                                     [DefaultParameters EXCEPT !.dc_kill = dc]),
                       [i \in 1 .. SettleLen |-> c], host)
    /\ obs = ObsInit
    /\ ThreadsIdle
    /\ feed = SilenceObsInit

\* process() with one sample of any value
SiFeed ==
    /\ ~feed.silent
    /\ feed.prior < MaxPrior
    /\ \E f \in SampleVals : wf' = process(wf, <<f>>, host)
    /\ feed' = [feed EXCEPT !.prior = feed.prior + 1]
    /\ UNCHANGED <<host, obs, osc, lk, audio, wk, ui, sd, wstore, ed, pr, twin>>

\* the input goes silent
SiGoSilent ==
    /\ ~feed.silent
    /\ feed' = [feed EXCEPT !.silent = TRUE]
    /\ UNCHANGED <<wf, host, obs, osc, lk, audio, wk, ui, sd, wstore, ed, pr, twin>>

\* process() with one sample that is 0
SiFeedZero ==
    /\ feed.silent
    /\ wf' = process(wf, <<0>>, host)
    /\ feed' = [feed EXCEPT !.zeros = IF DcAtRest(wf) \/ feed.zeros >= ZerosSeen
                                      THEN feed.zeros ELSE feed.zeros + 1,
                            !.after = feed.after \/ DcAtRest(wf)]
    /\ UNCHANGED <<host, obs, osc, lk, audio, wk, ui, sd, wstore, ed, pr, twin>>

SilenceNext == SiFeed \/ SiGoSilent \/ SiFeedZero

SilenceSpec == SilenceInit /\ [][SilenceNext]_vars

----------------------------------------------------------------------------
(* ImpulseSpec: the engine alone with the Internal trigger, fed sample by  *)
(* sample a train of unit impulses whose period is the period of the       *)
(* trigger oscillator.                                                     *)

MaxSweeps == 3       \* sweeps completed by a trigger in a run

\* the samples from one wrap of triggerPhase to the next: 1 / triggerSpeed
TriggerPeriod(p) == PhaseOne \div triggerSpeed(p)

\* trigger_speed dials with a phase increment of 1/316 and of 1/632
ImpulseSpeeds == {1000, 880}

\* time_window dials: 0.25 and 0.0056 pixels per sample
ImpulseWindows == {420, 750}

\* where in the period the impulse comes (the trigger comes at 0)
ImpulseOffsets == {0, 1, 3, 100, 177, 178, 300}

\* the columns of a buffer that hold the y of a sample of 1.0
PeakColumns(buf, h) ==
    {i \in 0 .. (Len(buf) \div 2 - 1) :
        buf[2 * i + 1] = jmap(One, h.height) \/ buf[2 * i + 2] = jmap(One, h.height)}

\* the observer: the samples fed, the offset of the impulse, the triggers
\* seen, and the peak columns of every sweep that began with a trigger and
\* was completed by the next one
ImpulseObsInit(k) ==
    [kind |-> "impulse", t |-> 0, offset |-> k, triggers |-> 0, sweeps |-> << >>]

\* the engine laid out (resized) with its parameters set, before any sample
ImpulseInit ==
    /\ \E w \in {2, 3} :
          host = [width |-> w, height |-> 4, samplerate |-> DcCutoff, resizing |-> FALSE]
    /\ \E ts \in ImpulseSpeeds, tw \in ImpulseWindows :
          wf = resized(setParameters(WaveformInit,
                          [DefaultParameters EXCEPT !.trigger_type = "kTriggerInternal",
                                                    !.trigger_speed = ts,
                                                    !.time_window = tw]), host)
    /\ obs = ObsInit
    /\ ThreadsIdle
    /\ \E k \in ImpulseOffsets : feed = ImpulseObsInit(k)

\* process() with the next sample of the train
ImFeed ==
    /\ feed.kind = "impulse"
    /\ Len(feed.sweeps) < MaxSweeps
    /\ LET f == IF (feed.t + 1) % TriggerPeriod(wf.params_) = feed.offset
                THEN One ELSE 0
           after == process(wf, <<f>>, host)
           o == Observe(obs, wf, <<f>>, host)
           trig == o.log # << >> /\ o.log[1].accepted
       IN  /\ wf' = after
           /\ obs' = o
           /\ feed' = [feed EXCEPT
                         !.t = feed.t + 1,
                         !.triggers = IF trig THEN feed.triggers + 1 ELSE feed.triggers,
                         !.sweeps = IF trig /\ feed.triggers >= 1
                                    THEN Append(feed.sweeps, PeakColumns(after.copy, host))
                                    ELSE feed.sweeps]
    /\ UNCHANGED <<host, osc, lk, audio, wk, ui, sd, wstore, ed, pr, twin>>

ImpulseNext == ImFeed

ImpulseSpec == ImpulseInit /\ [][ImpulseNext]_vars

----------------------------------------------------------------------------
(* RampSpec: the engine alone, as constructed and laid out, with the Free  *)
(* trigger and counterSpeed = 0.5, fed sample by sample a ramp that never  *)
(* turns back.                                                             *)

MaxRamp == 8         \* samples of the ramp in a run

\* the values a ramp takes: -1, -0.5, 0, 0.5, 1
RampVals == {-One, -(One \div 2), 0, One \div 2, One}

\* the observer: the direction of the ramp, the samples fed and the last of
\* them, the least and the greatest sample received since the previous
\* pixel boundary or trigger (none yet when fresh), the columns written,
\* and for the column written last its index and the least and greatest
\* sample it was written for
RampObsInit(up) ==
    [kind |-> "ramp", up |-> up, n |-> 0, last |-> 0, fresh |-> TRUE,
     lo |-> 0, hi |-> 0, wrote |-> 0, wcol |-> 0, wlo |-> 0, whi |-> 0]

RampInit ==
    /\ \E w \in {2, 3} :
          host = [width |-> w, height |-> 4, samplerate |-> DcCutoff, resizing |-> FALSE]
    /\ wf = resized(setParameters(WaveformInit,
                        [DefaultParameters EXCEPT !.time_window = 360]), host)
    /\ obs = ObsInit
    /\ ThreadsIdle
    /\ \E up \in BOOLEAN : feed = RampObsInit(up)

\* process() with the next sample of the ramp
RaFeed ==
    /\ feed.kind = "ramp"
    /\ feed.n < MaxRamp
    /\ \E f \in RampVals :
          /\ feed.n > 0 => IF feed.up THEN f >= feed.last ELSE f <= feed.last
          /\ LET after == process(wf, <<f>>, host)
                 o == Observe(obs, wf, <<f>>, host)
                 trig == o.log # << >> /\ o.log[1].accepted
                 fresh == feed.fresh \/ trig
                 lo == IF fresh \/ f < feed.lo THEN f ELSE feed.lo
                 hi == IF fresh \/ f > feed.hi THEN f ELSE feed.hi
                 boundary == wf.counter + counterSpeed(wf.params_) >= CounterOne
                             \/ trig
                 wrote == after.index = (IF trig THEN 0 ELSE wf.index) + 1
             IN  /\ wf' = after
                 /\ obs' = o
                 /\ feed' = [feed EXCEPT
                               !.n = feed.n + 1, !.last = f,
                               !.fresh = boundary, !.lo = lo, !.hi = hi,
                               !.wrote = IF wrote THEN feed.wrote + 1 ELSE feed.wrote,
                               !.wcol = IF wrote THEN after.index - 1 ELSE feed.wcol,
                               !.wlo = IF wrote THEN lo ELSE feed.wlo,
                               !.whi = IF wrote THEN hi ELSE feed.whi]
    /\ UNCHANGED <<host, osc, lk, audio, wk, ui, sd, wstore, ed, pr, twin>>

RampNext == RaFeed

RampSpec == RampInit /\ [][RampNext]_vars

----------------------------------------------------------------------------
(* TwinSpec: two engines, laid out alike, whose parameters differ in one   *)
(* dial that the trigger type of both does not use; every process() call   *)
(* is made on both with the same samples.                                  *)

MaxTwin == 5         \* process() calls in a run

\* the parameters of the first engine
TwinBase ==
    {[DefaultParameters EXCEPT !.trigger_type = "kTriggerFree", !.time_window = 300],
     [DefaultParameters EXCEPT !.trigger_type = "kTriggerInternal",
                               !.trigger_speed = 1000, !.time_window = 300],
     [DefaultParameters EXCEPT !.trigger_type = "kTriggerRising",
                               !.trigger_limit = 100, !.time_window = 360],
     [DefaultParameters EXCEPT !.trigger_type = "kTriggerFalling",
                               !.trigger_limit = 0, !.time_window = 300,
                               !.dc_kill = TRUE]}

\* the parameters that differ from p only in trigger_speed, the type not
\* being Internal, or only in trigger_level, the type being neither Rising
\* nor Falling
TwinOf(p) ==
    (IF p.trigger_type # "kTriggerInternal"
     THEN {[p EXCEPT !.trigger_speed = v] : v \in {880, 1000} \ {p.trigger_speed}}
     ELSE {})
    \cup
    (IF p.trigger_type \notin {"kTriggerRising", "kTriggerFalling"}
     THEN {[p EXCEPT !.trigger_level = v] : v \in {250, 750} \ {p.trigger_level}}
     ELSE {})

\* the trigger events of a process() call, without the parameters
TriggerEvents(log) ==
    [i \in 1 .. Len(log) |->
        [sample |-> log[i].sample, since |-> log[i].since, cols |-> log[i].cols,
         accepted |-> log[i].accepted]]

\* the observer: the calls made, the observer of the second engine, and the
\* number of triggers the first engine accepted
TwinObsInit == [kind |-> "twin", n |-> 0, tobs |-> ObsInit, accepted |-> 0]

TwinInit ==
    /\ \E w \in {2, 3} :
          host = [width |-> w, height |-> 4, samplerate |-> 1000, resizing |-> FALSE]
    /\ \E p \in TwinBase : \E q \in TwinOf(p) :
          /\ wf = resized(setParameters(WaveformInit, p), host)
          /\ twin = resized(setParameters(WaveformInit, q), host)
    /\ obs = ObsInit
    /\ osc = OscInit
    /\ lk = LocksInit
    /\ audio = [subscribed |-> FALSE, left |-> << >>, right |-> << >>, pushed |-> 0,
                redundant |-> {}]
    /\ wk = [pc |-> "done", cs |-> "OFF", data |-> << >>, i |-> 0, sample |-> 0,
             idle |-> "no"]
    /\ ui = [pc |-> "gone", left |-> TRUE, right |-> TRUE, visible |-> TRUE,
             arg |-> "none", snapshot |-> DefaultParameters, ops |-> 0]
    /\ sd = SpectrumInit
    /\ wstore = StoreInit
    /\ ed = SetterIdle
    /\ pr = StoreObsInit
    /\ feed = TwinObsInit

\* process(data) on both engines
TwFeedData(data) ==
    LET o == Observe(obs, wf, data, host)
    IN  /\ wf' = process(wf, data, host)
        /\ twin' = process(twin, data, host)
        /\ obs' = o
        /\ feed' = [feed EXCEPT
                      !.n = feed.n + 1,
                      !.tobs = Observe(feed.tobs, twin, data, host),
                      !.accepted = feed.accepted
                          + Cardinality({i \in DOMAIN o.log : o.log[i].accepted})]
        /\ UNCHANGED <<host, osc, lk, audio, wk, ui, sd, wstore, ed, pr>>

\* a block of one sample
TwFeed ==
    /\ feed.kind = "twin"
    /\ feed.n < MaxTwin
    /\ \E f \in SampleVals : TwFeedData(<<f>>)

\* the long silent block, as the first call
TwFeedLong ==
    /\ feed.kind = "twin"
    /\ feed.n = 0
    /\ TwFeedData(LongBlock)

TwinNext == TwFeed \/ TwFeedLong

TwinSpec == TwinInit /\ [][TwinNext]_vars

----------------------------------------------------------------------------
(* SweepSpec: the engine alone, as constructed and laid out, fed one       *)
(* sample per process() call.  The body of the loop is taken in two steps: *)
(* the DC filter, the gain, the triggers and, when a trigger is accepted,  *)
(* the // @ trigger block; then the extrema, the pixel boundary and the    *)
(* store of previousSample.  Nothing else runs between the two steps of a  *)
(* sample.  Between samples the message thread sets new parameters or      *)
(* changes the bounds; setBounds and the resized() it causes are one step  *)
(* here (the worker inside process() during a bounds change is a case of   *)
(* Spec).                                                                  *)

MaxSweepSamples == 7 \* samples fed in a run
MaxSweepSets == 1    \* setParameters() calls in a run
MaxSweepResizes == 1 \* bounds changes in a run

\* the samples fed: -1 and 0.5
SweepVals == {-One, One \div 2}

\* the widths of the display
SweepWidths == {1, 2, 3}

\* Free with 2 and with 0.5 pixels per sample; Rising at level 0 without
\* lockout with 1 and with 0.0056 pixels per sample; Rising with a lockout
\* of 2 samples and 2 pixels per sample; Falling with 0.5 pixels per sample
SweepParams ==
    {[DefaultParameters EXCEPT !.time_window = 240],
     [DefaultParameters EXCEPT !.time_window = 360],
     [DefaultParameters EXCEPT !.trigger_type = "kTriggerRising",
                               !.trigger_limit = 0, !.time_window = 300],
     [DefaultParameters EXCEPT !.trigger_type = "kTriggerRising",
                               !.trigger_limit = 0],
     [DefaultParameters EXCEPT !.trigger_type = "kTriggerRising",
                               !.trigger_limit = 100, !.time_window = 240],
     [DefaultParameters EXCEPT !.trigger_type = "kTriggerFalling",
                               !.trigger_limit = 0, !.time_window = 360]}

\* the observer: the samples fed, the parameter and bounds changes made;
\* whether the worker is between the two steps of a sample ("mid"), the
\* sample after the gain, whether the trigger of the sample processed last
\* was accepted (no sample is the last after a parameter or bounds change)
\* and the index it found; the widest display since the last accepted trigger;
\* the least and the greatest sample received since the last pixel boundary
\* or trigger (none when fresh), how many they were and which of the two
\* changed last; whether the last sample wrote a column, and which
SweepObsInit(w) ==
    [kind |-> "sweep", n |-> 0, sets |-> 0, resizes |-> 0,
     phase |-> "idle", sample |-> 0, acc |-> FALSE, at |-> 0,
     wmax |-> w,
     fresh |-> TRUE, lo |-> 0, hi |-> 0, cnt |-> 0, last |-> "none",
     wrote |-> FALSE, wcol |-> 0]

SweepInit ==
    /\ \E w \in {2, 3} :
          /\ host = [width |-> w, height |-> 4, samplerate |-> DcCutoff, resizing |-> FALSE]
          /\ feed = SweepObsInit(w)
    /\ \E p \in SweepParams : wf = resized(setParameters(WaveformInit, p), host)
    /\ obs = ObsInit
    /\ ThreadsIdle

\* the first half of the loop body: DC filter, gain, triggers, // @ trigger
SwSample ==
    /\ feed.kind = "sweep"
    /\ feed.phase = "idle"
    /\ feed.n < MaxSweepSamples
    /\ ~wf.params_.freeze
    /\ \E f \in SweepVals :
          LET s1 == DcFilter(wf, f, host)
              sample == GainedSample(s1, f)
              s2 == Triggers(s1, sample, host)
              acc == Accepted(s1, sample, host)
          IN  /\ wf' = IF acc THEN OnTrigger(s2, host) ELSE s2
              /\ feed' = [feed EXCEPT
                            !.n = feed.n + 1, !.phase = "mid",
                            !.sample = sample, !.acc = acc, !.at = wf.index,
                            !.wmax = IF acc THEN host.width ELSE feed.wmax,
                            !.fresh = feed.fresh \/ acc,
                            !.wrote = FALSE]
    /\ UNCHANGED <<host, obs, osc, lk, audio, wk, ui, sd, wstore, ed, pr, twin>>

\* the second half: // @ sample, // @ counter, // store for edge-triggers
SwTrack ==
    /\ feed.kind = "sweep"
    /\ feed.phase = "mid"
    /\ LET f == feed.sample
           up == feed.fresh \/ f > feed.hi
           down == feed.fresh \/ f < feed.lo
           boundary == wf.counter + counterSpeed(wf.params_) >= CounterOne
           wrote == boundary /\ wf.index < host.width
       IN  /\ wf' = StorePrevious(PixelBoundary(Extrema(wf, f), host), f)
           /\ feed' = [feed EXCEPT
                         !.phase = "idle",
                         !.hi = IF up THEN f ELSE feed.hi,
                         !.lo = IF down THEN f ELSE feed.lo,
                         !.last = IF down THEN "min"
                                  ELSE IF up THEN "max" ELSE feed.last,
                         !.cnt = IF feed.fresh THEN 1 ELSE feed.cnt + 1,
                         !.fresh = boundary,
                         !.wrote = wrote, !.wcol = wf.index]
    /\ UNCHANGED <<host, obs, osc, lk, audio, wk, ui, sd, wstore, ed, pr, twin>>

\* setParameters() between two process() calls
SwSetParameters ==
    /\ feed.kind = "sweep"
    /\ feed.phase = "idle"
    /\ feed.sets < MaxSweepSets
    /\ \E p \in SweepParams \ {wf.params_} : wf' = setParameters(wf, p)
    /\ feed' = [feed EXCEPT !.sets = feed.sets + 1,
                             !.acc = FALSE, !.wrote = FALSE]
    /\ UNCHANGED <<host, obs, osc, lk, audio, wk, ui, sd, wstore, ed, pr, twin>>

\* setBounds() and the resized() it calls, between two process() calls
SwSetBounds ==
    /\ feed.kind = "sweep"
    /\ feed.phase = "idle"
    /\ feed.resizes < MaxSweepResizes
    /\ \E w \in SweepWidths \ {host.width} :
          /\ host' = [host EXCEPT !.width = w]
          /\ wf' = resized(wf, host')
          /\ feed' = [feed EXCEPT
                        !.resizes = feed.resizes + 1,
                        !.acc = FALSE, !.wrote = FALSE,
                        !.wmax = IF w > feed.wmax THEN w ELSE feed.wmax]
    /\ UNCHANGED <<obs, osc, lk, audio, wk, ui, sd, wstore, ed, pr, twin>>

SweepNext == SwSample \/ SwTrack \/ SwSetParameters \/ SwSetBounds

SweepSpec == SweepInit /\ [][SweepNext]_vars

----------------------------------------------------------------------------
(* MixSpec: the threads of Spec, with an audio thread that delivers blocks *)
(* whose frames differ from one another and between the two channels, so   *)
(* that what the worker dispatches shows which channel each sample came    *)
(* from.                                                                   *)

\* the blocks delivered, as sequences of <<left, right>> frames: a single
\* frame, and four frames in which left, right and their mean all differ
\* (the sums are even on the sample grid, so that the halves are on it)
MixBlocks ==
    {<< <<-4, 4>> >>,
     << <<4, 0>>, <<-2, 2>>, <<0, -4>>, <<2, 2>> >>}

MixInit ==
    /\ wf = WaveformInit
    /\ host = [width |-> 0, height |-> 4, samplerate |-> 250, resizing |-> FALSE]
    /\ obs = ObsInit
    /\ osc = OscInit
    /\ lk = LocksInit
    /\ audio = [subscribed |-> TRUE, left |-> << >>, right |-> << >>, pushed |-> 0,
                redundant |-> {}]
    /\ wk = [pc |-> "loop", cs |-> "OFF", data |-> << >>, i |-> 0, sample |-> 0,
             idle |-> "no"]
    /\ ui = [pc |-> "idle", left |-> TRUE, right |-> TRUE, visible |-> TRUE,
             arg |-> "none", snapshot |-> DefaultParameters, ops |-> 0]
    /\ sd = SpectrumInit
    /\ wstore = StoreInit
    /\ ed = SetterIdle
    /\ pr = StoreObsInit
    /\ twin = WaveformInit
    /\ feed = [kind |-> "mix"]

\* the audio thread hands one block to the subscribed source
MxPush ==
    /\ feed.kind = "mix"
    /\ audio.subscribed
    /\ audio.pushed < MaxAudio
    /\ \E b \in MixBlocks :
          audio' = [audio EXCEPT
                      !.left = audio.left \o [i \in 1..Len(b) |-> b[i][1]],
                      !.right = audio.right \o [i \in 1..Len(b) |-> b[i][2]],
                      !.pushed = audio.pushed + 1]
    /\ UNCHANGED <<twin, feed, ed, pr, wf, host, obs, osc, lk, wk, ui, sd, wstore>>

MixNext == MxPush \/ WorkerNext \/ UiNext

MixSpec == MixInit /\ [][MixNext]_vars

----------------------------------------------------------------------------
(* LockSpec: every taker of a lock together.  The worker, with one block   *)
(* of fftSize frames waiting in the source; the redraw tick with           *)
(* getParamsIfDirty and setParameters as steps of their own; paint; the    *)
(* setters of the controls, as a thread of their own (no more than the     *)
(* message thread allows); the channel buttons and the scope mode switch.  *)

LockInit ==
    /\ wf = WaveformInit
    /\ host = [width |-> 0, height |-> 4, samplerate |-> 250, resizing |-> FALSE]
    /\ obs = ObsInit
    /\ osc = OscInit
    /\ lk = LocksInit
    /\ audio = [subscribed |-> TRUE, left |-> [i \in 1..FftSize |-> -One],
                right |-> [i \in 1..FftSize |-> One], pushed |-> MaxAudio,
                redundant |-> {}]
    /\ wk = [pc |-> "loop", cs |-> "OFF", data |-> << >>, i |-> 0, sample |-> 0,
             idle |-> "no"]
    /\ ui = [pc |-> "idle", left |-> TRUE, right |-> TRUE, visible |-> TRUE,
             arg |-> "none", snapshot |-> DefaultParameters, ops |-> 0]
    /\ sd = SpectrumInit
    /\ wstore = StoreInit
    /\ ed = SetterIdle
    /\ pr = StoreObsInit
    /\ twin = WaveformInit
    /\ feed = FeedIdle

\* the steps of the message thread inside a callback it has entered
UiLockRun ==
    \/ PmUpdateDrawing \/ PmGetParamsIfDirty
    \/ PmCopyDials \/ PmCopyFlags \/ PmSetParameters
    \/ UiToggleChannel \/ UiChangeScopeType
    \/ UiPaintLock \/ UiPaintWaveform \/ UiPaintSpectrum

\* the steps of a setter that has been called
EdRun == EdLock \/ EdFlag \/ EdWrite \/ EdUnlock

LockNext ==
    \/ WorkerNext
    \/ EdBegin \/ EdLock \/ EdFlag \/ EdWrite \/ EdUnlock
    \/ PmTick \/ PmUpdateDrawing \/ PmGetParamsIfDirty
    \/ PmCopyDials \/ PmCopyFlags \/ PmSetParameters
    \/ UiClickChannel \/ UiToggleChannel
    \/ UiClickScopeMode \/ UiChangeScopeType
    \/ UiRepaint \/ UiPaintLock \/ UiPaintWaveform \/ UiPaintSpectrum

LockSpec == LockInit /\ [][LockNext]_vars

----------------------------------------------------------------------------
(* MainSpec: main() of the test runner, surge-testrunner/main.cpp, run on  *)
(* one command line.  args are the arguments after the program name:       *)
(* argv[k] is args[k] for 0 < k < argc, argc is Len(args) + 1 and          *)
(* argv[argc] is the null pointer that ends the array.  The functions main *)
(* calls are in other files; the run keeps which were called, and with     *)
(* what.                                                                   *)

MaxArgs == 4         \* arguments after the program name

\* the words of a command line: the options main compares with, and a number
MainWords ==
    {"--non-test", "--initialize-pdb", "--stats-from-every-patch",
     "--restream-templates", "--generate-nlf-norms", "--filter-analyzer",
     "--performance", "--help", "3"}

\* the command lines of up to MaxArgs arguments
CommandLines == UNION {[1..n -> MainWords] : n \in 0..MaxArgs}

argc(args) == Len(args) + 1

\* std::atoi: the number a string starts with, 0 when it starts with none
atoi(str) == IF str = "3" THEN 3 ELSE 0

\* the options of --non-test that are one call without arguments
Utilities ==
    [x \in {"--initialize-pdb", "--stats-from-every-patch",
            "--restream-templates", "--generate-nlf-norms"} |->
        CASE x = "--initialize-pdb" -> "initializePatchDB"
          [] x = "--stats-from-every-patch" -> "statsFromPlayingEveryPatch"
          [] x = "--restream-templates" -> "restreamTemplatesWithModifications"
          [] OTHER -> "generateNLFeedbackNorms"]

\* the run: the command line, the position in main, what was printed, the
\* calls made, whether argv was read at or beyond argv[argc], and the value
\* main returned (once pc is "exit"; a run that is "crashed" returned none)
MainObsInit(args) ==
    [kind |-> "main", args |-> args, pc |-> "start", out |-> << >>,
     calls |-> << >>, missing |-> FALSE, ret |-> 0]

MainInit ==
    /\ wf = WaveformInit
    /\ host = [width |-> 0, height |-> 4, samplerate |-> DcCutoff, resizing |-> FALSE]
    /\ obs = ObsInit
    /\ ThreadsIdle
    /\ \E args \in CommandLines : feed = MainObsInit(args)

\* the banner and `if (argc > 2 && strcmp(argv[1], "--non-test") == 0)`
MnStart ==
    /\ feed.kind = "main"
    /\ feed.pc = "start"
    /\ feed' = [feed EXCEPT
                  !.out = <<"version">>,
                  !.pc = IF argc(feed.args) > 2 /\ feed.args[1] = "--non-test"
                         THEN "utilities" ELSE "regtest"]
    /\ UNCHANGED <<wf, host, obs, osc, lk, audio, wk, ui, sd, wstore, ed, pr, twin>>

\* "# Running in non-test mode" and the four options without arguments
MnUtilities ==
    /\ feed.kind = "main"
    /\ feed.pc = "utilities"
    /\ feed' = [feed EXCEPT
                  !.out = Append(feed.out, "mode"),
                  !.calls = IF feed.args[2] \in DOMAIN Utilities
                            THEN Append(feed.calls, <<Utilities[feed.args[2]]>>)
                            ELSE feed.calls,
                  !.pc = "filterAnalyzer"]
    /\ UNCHANGED <<wf, host, obs, osc, lk, audio, wk, ui, sd, wstore, ed, pr, twin>>

\* `if (strcmp(argv[2], "--filter-analyzer") == 0)`: the usage line and
\* `return 1` when argc < 4, else filterAnalyzer(atoi(argv[3]),
\* atoi(argv[4]), std::cout).  With argc = 4 argv[4] is the null pointer:
\* std::atoi of it is undefined, the run crashes or goes on with some number.
MnFilterAnalyzer ==
    /\ feed.kind = "main"
    /\ feed.pc = "filterAnalyzer"
    /\ IF feed.args[2] # "--filter-analyzer"
       THEN feed' = [feed EXCEPT !.pc = "performance"]
       ELSE IF argc(feed.args) < 4
       THEN feed' = [feed EXCEPT !.out = Append(feed.out, "usage"),
                                 !.ret = 1, !.pc = "exit"]
       ELSE IF argc(feed.args) < 5
       THEN \/ feed' = [feed EXCEPT !.missing = TRUE, !.pc = "crashed"]
            \/ \E subtype \in {0, 3} :
                  feed' = [feed EXCEPT
                             !.missing = TRUE,
                             !.calls = Append(feed.calls,
                                              <<"filterAnalyzer",
                                                atoi(feed.args[3]), subtype>>),
                             !.pc = "performance"]
       ELSE feed' = [feed EXCEPT
                       !.calls = Append(feed.calls,
                                        <<"filterAnalyzer", atoi(feed.args[3]),
                                          atoi(feed.args[4])>>),
                       !.pc = "performance"]
    /\ UNCHANGED <<wf, host, obs, osc, lk, audio, wk, ui, sd, wstore, ed, pr, twin>>

\* `if (strcmp(argv[2], "--performance") == 0)`:
\* performancePlay(argv[3], atoi(argv[4])), whatever argc is.  With
\* argc < 5 argv[4] is the null pointer or lies beyond the array.
MnPerformance ==
    /\ feed.kind = "main"
    /\ feed.pc = "performance"
    /\ IF feed.args[2] # "--performance"
       THEN feed' = [feed EXCEPT !.pc = "return"]
       ELSE IF argc(feed.args) < 5
       THEN \/ feed' = [feed EXCEPT !.missing = TRUE, !.pc = "crashed"]
            \/ \E n \in {0, 3} :
                  feed' = [feed EXCEPT
                             !.missing = TRUE,
                             !.calls = Append(feed.calls,
                                 <<"performancePlay",
                                   IF argc(feed.args) > 3 THEN feed.args[3]
                                   ELSE "nullptr", n>>),
                             !.pc = "return"]
       ELSE feed' = [feed EXCEPT
                       !.calls = Append(feed.calls,
                                        <<"performancePlay", feed.args[3],
                                          atoi(feed.args[4])>>),
                       !.pc = "return"]
    /\ UNCHANGED <<wf, host, obs, osc, lk, audio, wk, ui, sd, wstore, ed, pr, twin>>

\* `return 0;` at the end of the --non-test branch
MnReturn ==
    /\ feed.kind = "main"
    /\ feed.pc = "return"
    /\ feed' = [feed EXCEPT !.ret = 0, !.pc = "exit"]
    /\ UNCHANGED <<wf, host, obs, osc, lk, audio, wk, ui, sd, wstore, ed, pr, twin>>

\* the else branch: the help text for --help, and
\* `return runAllTests(argc, argv)`, which returns what the tests give
MnRegtest ==
    /\ feed.kind = "main"
    /\ feed.pc = "regtest"
    /\ \E result \in {0, 1} :
          feed' = [feed EXCEPT
                     !.out = IF argc(feed.args) > 1 /\ feed.args[1] = "--help"
                             THEN Append(feed.out, "help") ELSE feed.out,
                     !.calls = Append(feed.calls, <<"runAllTests">>),
                     !.ret = result, !.pc = "exit"]
    /\ UNCHANGED <<wf, host, obs, osc, lk, audio, wk, ui, sd, wstore, ed, pr, twin>>

MainNext ==
    \/ MnStart \/ MnUtilities \/ MnFilterAnalyzer \/ MnPerformance
    \/ MnReturn \/ MnRegtest

MainSpec == MainInit /\ [][MainNext]_vars

----------------------------------------------------------------------------
(* SpectrumSpec: the spectrum branch of pullData alone.  The worker drains *)
(* one block after the other; nothing else takes a lock it needs, so one   *)
(* iteration of its loop is one step.  The scope mode switch is clicked in *)
(* between.  The samples of a run are either all zero or each tagged with  *)
(* its arrival number, so that the window a pass analysed shows which      *)
(* samples went into it.                                                   *)

MaxPulls == 3        \* blocks the worker drains in a run

\* storage_->samplerate in the runs of the spectrum branch
SpectrumRates == {250, 48000, 200000}

\* the lengths of the drained blocks: around the FFT length and twice it
DrainLens == {1, FftSize - 1, FftSize, FftSize + 1, 2 * FftSize, 2 * FftSize + 1}

\* the observer of the spectrum branch: the mono samples accumulated so
\* far, in arrival order, the passes run, and fft_data_ as each pass found
\* it before the window was applied
SpectrumObsInit(tagged) ==
    [kind |-> "spectrum", tagged |-> tagged, pulls |-> 0,
     arrived |-> << >>, passes |-> 0, windows |-> << >>]

SpectrumInit0 ==
    /\ wf = WaveformInit
    /\ \E sr \in SpectrumRates :
          host = [width |-> 0, height |-> 4, samplerate |-> sr, resizing |-> FALSE]
    /\ obs = ObsInit
    /\ osc = OscInit
    /\ lk = LocksInit
    /\ audio = [subscribed |-> TRUE, left |-> << >>, right |-> << >>, pushed |-> 0,
                redundant |-> {}]
    /\ wk = [pc |-> "loop", cs |-> "OFF", data |-> << >>, i |-> 0, sample |-> 0,
             idle |-> "no"]
    /\ ui = [pc |-> "idle", left |-> TRUE, right |-> TRUE, visible |-> TRUE,
             arg |-> "none", snapshot |-> DefaultParameters, ops |-> 0]
    /\ sd = SpectrumInit
    /\ wstore = StoreInit
    /\ ed = SetterIdle
    /\ pr = StoreObsInit
    /\ twin = WaveformInit
    /\ \E tagged \in BOOLEAN : feed = SpectrumObsInit(tagged)

\* one iteration of pullData's loop that drained a block: the dispatch on
\* scope_mode_ and, in spectrum mode, the whole else branch
SpPull ==
    /\ feed.pulls < MaxPulls
    /\ ui.pc = "idle"
    /\ ~osc.oob
    /\ \E n \in DrainLens :
          LET dataL == [i \in 1..n |->
                          IF feed.tagged THEN Len(feed.arrived) + i ELSE 0]
              sz == Len(dataL)
              mv == FftSize - osc.pos_
              leftovers == sz - mv
              window == MoveInto(osc.fft_data_, SubSeq(dataL, 1, mv), osc.pos_)
          IN  IF osc.scope_mode_ = "WAVEFORM"
              THEN /\ wf' = process(wf, dataL, host)
                   /\ feed' = [feed EXCEPT !.pulls = feed.pulls + 1]
                   /\ UNCHANGED <<osc, sd>>
              ELSE IF RingFills(osc.pos_, sz)
              THEN /\ \E t \in Transformed(window) :
                         /\ osc' = [osc EXCEPT
                                 !.scope_data_ = calculateSpectrumData(t, host),
                                 !.fft_data_ = MoveInto(t, SubSeq(dataL, mv + 1, sz), 0),
                                 !.pos_ = leftovers,
                                 !.oob = leftovers > FftSize]
                         /\ sd' = [sd EXCEPT !.new_scope_data_ =
                                                 calculateSpectrumData(t, host)]
                   /\ feed' = [feed EXCEPT !.pulls = feed.pulls + 1,
                                           !.arrived = feed.arrived \o dataL,
                                           !.passes = feed.passes + 1,
                                           !.windows = Append(feed.windows, window)]
                   /\ UNCHANGED wf
              ELSE /\ osc' = [osc EXCEPT !.fft_data_ = MoveInto(osc.fft_data_, dataL,
                                                                osc.pos_),
                                         !.pos_ = osc.pos_ + sz]
                   /\ feed' = [feed EXCEPT !.pulls = feed.pulls + 1,
                                           !.arrived = feed.arrived \o dataL]
                   /\ UNCHANGED <<wf, sd>>
    /\ UNCHANGED <<host, obs, lk, audio, wk, ui, wstore, ed, pr, twin>>

SpectrumNext == SpPull \/ UiClickScopeMode \/ UiChangeScopeType

SpectrumSpec == SpectrumInit0 /\ [][SpectrumNext]_vars

----------------------------------------------------------------------------
(* Claims about the parameter store.                                       *)

\* getParamsIfDirty finds params_changed_ set and goes on to return params_
Taking == ui.pc = "getParamsIfDirty" /\ ui'.pc = "copyDials"

\* getParamsIfDirty returns std::nullopt
Declining == ui.pc = "getParamsIfDirty" /\ ui'.pc = "idle"

\* getParamsIfDirty returns the snapshot
Delivering == ui.pc = "copyFlags" /\ ui'.pc = "apply"

\* updateDrawing returns
TickEnds == ui.pc \in {"tick", "getParamsIfDirty", "apply"} /\ ui'.pc = "idle"

\* C5: getParamsIfDirty returns a snapshot, clearing the flag, only when
\* the flag is set, and otherwise changes nothing; each snapshot holds a
\* write the one before did not hold and is params_ as it was after the
\* last write, whole; and when the store is clean with no setter and no
\* copy running, no write is missing from the last snapshot and the engine
\* holds params_ as the store does.
C5_EditAppliedExactlyOnce ==
    /\ [][Taking => wstore.params_changed_ /\ ~wstore'.params_changed_]_vars
    /\ [][Declining => ~wstore.params_changed_ /\ wstore' = wstore /\ wf' = wf]_vars
    /\ [][Delivering => /\ pr.writes > pr.taken
                        /\ ui'.snapshot = pr.history[pr.writes + 1]]_vars
    /\ [](~wstore.params_changed_ /\ ed.pc = "idle"
              /\ ui.pc \notin {"copyDials", "copyFlags"}
            => pr.taken = pr.writes)
    /\ [](~wstore.params_changed_ /\ ed.pc = "idle" /\ ui.pc = "idle"
            => wf.params_ = wstore.params_)

\* one edit, delivered by a tick, and a later tick that found no change
C5_Witness ==
    /\ pr.writes = 1 /\ pr.taken = 1
    /\ pr.last = "unchanged"
    /\ ui.pc = "idle"
    /\ wf.params_ = wstore.params_
    /\ wf.params_ # DefaultParameters

\* C6 as stated: when a tick ends, the engine holds params_ as it was after
\* a write not older than the last setter that returned before the tick
\* began.
C6_CausallyOrdered ==
    [][TickEnds => \E v \in pr.atBegin..pr.writes :
                       wf'.params_ = pr.history[v + 1]]_vars

\* C6, amended: the same, for the ticks that run with a channel selection
\* other than Off and in waveform mode.
C6_CausallyOrderedWhenActive ==
    [][TickEnds /\ osc.channel_selection_ # "OFF" /\ osc.scope_mode_ = "WAVEFORM"
          => \E v \in pr.atBegin..pr.writes :
                 wf'.params_ = pr.history[v + 1]]_vars

\* a tick that began after two setters had returned has put both writes
\* into the engine
C6_Witness ==
    /\ pr.last = "delivered"
    /\ ui.pc = "idle"
    /\ pr.atBegin = 2
    /\ wf.params_ = pr.history[3]
    /\ wf.params_ # pr.history[2]
    /\ wf.params_ # DefaultParameters

----------------------------------------------------------------------------
(* Claims about the lifecycle of the worker and of the subscription.       *)

\* the destructor's positions after fft_thread_.join() has returned
Joined == {"unsubscribe", "gone"}

\* C1: once the destructor has set complete_, it returns: the worker leaves
\* its loop from wherever it is (blocked in the wait, between the test of
\* complete_ and the lock, asleep, inside a block) and the join returns;
\* and after the join the worker takes no step.
C1_TeardownCompletes ==
    /\ osc.complete_ ~> (ui.pc = "gone")
    /\ [](ui.pc \in Joined => wk.pc = "done")
    /\ [][ui.pc \in Joined => wk' = wk]_vars

\* the destructor joining a worker that it has woken from the wait
C1_Witness ==
    /\ osc.complete_
    /\ ui.pc = "join"
    /\ wk.pc = "woken"

\* C2: when the destructor has returned the audio source is unsubscribed,
\* whatever the worker, the channel buttons and visibility did before.
C2_NoSubscriptionLeak == ui.pc = "gone" => ~audio.subscribed

\* the destructor returned after the channels were off and the overlay hidden
C2_Witness ==
    /\ ui.pc = "gone"
    /\ ~audio.subscribed
    /\ ~ui.left /\ ~ui.right
    /\ wk.pc = "done"

----------------------------------------------------------------------------
(* Claims about the locks of the displays.                                 *)

\* the decimation buffers of the waveform display
DecimationBuffers(s) == <<s.peaks, s.copy>>

\* the runtime state of the trigger and of the decimation
RuntimeState(s) ==
    <<s.index, s.counter, s.max, s.min, s.lastIsMax, s.previousSample,
      s.triggerPhase, s.triggerLimitPhase, s.dcKill, s.dcFilterTemp>>

\* the worker's positions inside WaveformDisplay::process
InProcess == {"sample", "zero", "copy", "reset", "track", "return"}

\* C3: the worker changes the decimation buffers, the runtime state and
\* the published scope buffer only while it holds the lock of that display,
\* paint reads them while it holds the same lock, and so paint never runs
\* while the worker is inside a block or inside a publish.
C3_PaintNeverSeesHalfWritten ==
    /\ [](wk.pc \in InProcess => lk.lock_ = "worker")
    /\ [](wk.pc = "publishing" => lk.spectrum_lock_ = "worker")
    /\ [](ui.pc = "paintWaveform" => lk.lock_ = "ui" /\ wk.pc \notin InProcess)
    /\ [](ui.pc = "paintSpectrum" =>
              lk.spectrum_lock_ = "ui" /\ wk.pc # "publishing")
    /\ [][WorkerNext /\ (DecimationBuffers(wf)' # DecimationBuffers(wf)
                           \/ RuntimeState(wf)' # RuntimeState(wf))
             => lk.lock_ = "worker"]_vars
    /\ [][WorkerNext /\ sd.new_scope_data_' # sd.new_scope_data_
             => lk.spectrum_lock_ = "worker"]_vars

\* paint reads the waveform while the worker, holding a block, waits for
\* lock_ to process it
C3_Witness ==
    /\ ui.pc = "paintWaveform"
    /\ wk.pc = "process"
    /\ Len(wf.peaks) > 0
    /\ wf.index > 0

\* C4 as stated: no step of the message thread changes the decimation
\* buffers, the published scope buffer or the runtime state.
C4_OnlyWorkerWrites ==
    [][UiNext => /\ DecimationBuffers(wf)' = DecimationBuffers(wf)
                 /\ RuntimeState(wf)' = RuntimeState(wf)
                 /\ sd.new_scope_data_' = sd.new_scope_data_]_vars

\* C4, amended: no step of the message thread changes the runtime state or
\* the published scope buffer; of its steps only WaveformDisplay::resized
\* changes the decimation buffers, holding lock_, and only changeScopeType
\* changes Oscilloscope::scope_data_, holding data_lock_.
C4_WorkerWritesButForResizedAndScopeType ==
    [][UiNext => /\ RuntimeState(wf)' = RuntimeState(wf)
                 /\ sd.new_scope_data_' = sd.new_scope_data_
                 /\ (DecimationBuffers(wf)' # DecimationBuffers(wf)
                        => ui.pc = "resized" /\ lk.lock_ = "free")
                 /\ (osc.scope_data_' # osc.scope_data_
                        => ui.pc = "changeScopeType" /\ lk.data_lock_ = "free")]_vars

\* resized() has laid out buffers that the worker had written columns into
C4_Witness ==
    /\ ui.pc = "idle"
    /\ host.width > 0
    /\ Len(wf.peaks) = 2 * host.width
    /\ wf.index > 0
    /\ \A j \in 1..Len(wf.peaks) : wf.peaks[j] = jmap(0, host.height)
    /\ sd.new_scope_data_ # SpectrumInit.new_scope_data_

----------------------------------------------------------------------------
(* Claims about the trigger state machine, over the events of the last     *)
(* process() call.                                                         *)

Events == {obs.log[i] : i \in 1..Len(obs.log)}

EdgeTypes == {"kTriggerRising", "kTriggerFalling"}

\* C7: in Free mode, with the width unchanged since the previous accepted
\* trigger, exactly getWidth() columns are written between that trigger and
\* the next one, and never more than getWidth() columns are written in a
\* sweep.
C7_FreeTriggerEveryWidthColumns ==
    /\ \A e \in Events :
          (e.accepted /\ e.type = "kTriggerFree" /\ e.since >= 1 /\ e.wfix)
             => e.cols = e.width
    /\ (obs.since >= 0 /\ obs.wfix) => obs.cols <= host.width

C7_Witness ==
    \E e \in Events :
        /\ e.accepted /\ e.type = "kTriggerFree" /\ e.since >= 1 /\ e.wfix
        /\ e.width = MaxWidth /\ e.cols = e.width

\* C8: a Rising trigger is accepted only at a sample whose gained value is
\* at or above the level while the previous processed sample's gained value
\* was below it; a Falling trigger only at a sample at or below the level
\* whose predecessor was above it.
C8_EdgeTriggerOnlyAtCrossing ==
    \A e \in Events :
        e.accepted =>
            /\ e.type = "kTriggerRising" => (e.sample >= e.level /\ e.prev < e.level)
            /\ e.type = "kTriggerFalling" => (e.sample <= e.level /\ e.prev > e.level)

C8_Witness ==
    /\ \E e \in Events :
          /\ e.accepted /\ e.type = "kTriggerRising" /\ e.since >= 1
          /\ e.sample >= e.level /\ e.prev < e.level
    /\ wf.params_.amp_window = 500

\* C9: in Rising or Falling mode an accepted trigger lies at least
\* triggerLimit processed samples after the previous accepted trigger.
C9_RetriggerLockout ==
    \A e \in Events :
        (e.accepted /\ e.type \in EdgeTypes /\ e.since >= 1)
            => e.since >= e.limit

C9_Witness ==
    \E e \in Events :
        /\ e.accepted /\ e.type \in EdgeTypes
        /\ e.since >= 1 /\ e.limit >= 2 /\ e.since = e.limit

\* C10: in Free and Internal mode every fired trigger is accepted.
C10_FreeInternalNeverSuppressed ==
    \A e \in Events :
        e.type \in {"kTriggerFree", "kTriggerInternal"} => e.accepted

\* an Internal trigger accepted although fewer than triggerLimit samples
\* have been counted by the lockout
C10_Witness ==
    \E e \in Events :
        e.type = "kTriggerInternal" /\ e.accepted /\ e.phase < e.limit

----------------------------------------------------------------------------
(* Claims about what process() leaves alone and about its failure.         *)

\* C11: a process() call made while params_.freeze is set leaves the
\* decimation buffer, the frozen copy and the runtime state (write index,
\* counter, extrema, DC filter, previous sample, trigger phase, lockout
\* counter) as they were, whatever the block.
C11_FreezeLeavesEngineUnchanged ==
    [][(obs'.calls = obs.calls + 1 /\ wf.params_.freeze)
          => /\ DecimationBuffers(wf)' = DecimationBuffers(wf)
             /\ RuntimeState(wf)' = RuntimeState(wf)
             /\ wf' = wf]_vars

\* a frozen engine, with columns written before the freeze, was given a
\* block
C11_Witness ==
    /\ wf.params_.freeze
    /\ obs.frozen >= 1
    /\ Len(wf.peaks) > 0
    /\ wf.index > 0
    /\ wf.dcFilterTemp # 0

\* C12: a process() call that reaches the switch with a trigger type that
\* is none of Free, Rising, Falling, Internal calls std::abort(): the sample
\* at hand has only passed the DC filter, the lockout counter, the sweep
\* and the buffers are not touched, no later sample of the block is
\* processed, and the process takes no step afterwards.  No other call
\* aborts.
C12_InvalidTriggerTypeAborts ==
    /\ [][(obs'.calls = obs.calls + 1 /\ ~wf.params_.freeze
              /\ wf.params_.trigger_type \notin TriggerTypes)
             => \E f \in SampleVals :
                    wf' = [DcFilter(wf, f, host) EXCEPT !.aborted = TRUE]]_vars
    /\ [][wf'.aborted => wf.params_.trigger_type \notin TriggerTypes]_vars
    /\ [][~wf.aborted]_vars

\* the abort came after columns had been written, on a sample other than 0
C12_Witness ==
    /\ wf.aborted
    /\ wf.params_.trigger_type = InvalidTriggerType
    /\ wf.index > 0
    /\ wf.dcFilterTemp # 0
    /\ wf.previousSample = 0
 
----------------------------------------------------------------------------
(* Claims about the DC filter.                                             *)

\* C16: from whatever state the filter is in when the input goes silent,
\* with every further sample 0 the filter output dcKill is exactly 0 after
\* finitely many samples (fewer than ZerosSeen of them), and is 0 for all
\* later samples.
C16_DcFilterSettlesAtZero ==
    /\ [][feed'.kind = "silence" => feed'.zeros < ZerosSeen]_vars
    /\ [][(feed.kind = "silence" /\ feed.silent /\ DcAtRest(wf)) => DcAtRest(wf')]_vars

\* at 48000 Hz the filter came to rest after more than four hundred zeros,
\* and a further zero was then fed
C16_Witness ==
    /\ feed.kind = "silence" /\ feed.silent
    /\ host.samplerate = 48000
    /\ feed.zeros > 400
    /\ feed.after
    /\ DcAtRest(wf)
    /\ wf.dcKill = 0 /\ wf.dcFilterTemp = 0

----------------------------------------------------------------------------
(* Claims about the spectrum branch.                                       *)

\* bin i (entry i + 1) lies in [lowFreq, highFreq]
InBand(i, h) ==
    /\ (i - 1) * h.samplerate >= lowFreq * FftSize
    /\ (i - 1) * h.samplerate <= highFreq * FftSize

\* C13: every entry of the published scope buffer lies in [dbMin, dbMax],
\* and every bin below lowFreq or above highFreq is dbMin, whatever the
\* magnitudes the transform produced and whatever the scope mode switch
\* did to scope_data_.
C13_SpectrumClamp ==
    \A i \in 1..Bins :
        /\ sd.new_scope_data_[i] >= dbMin
        /\ sd.new_scope_data_[i] <= dbMax
        /\ ~InBand(i, host) => sd.new_scope_data_[i] = dbMin

\* a pass left a magnitude above fftSize in a bin above highFreq and one in
\* a bin below lowFreq
C13_Witness ==
    /\ feed.passes >= 1
    /\ osc.pos_ = 0
    /\ \A i \in 1..Bins : ~InBand(i, host) /\ osc.fft_data_[i] = 200
    /\ host.samplerate > 4 * highFreq

\* C15: when fftSize zero samples have been fed in spectrum mode at
\* 48000 Hz, exactly one pass has run, and the scope buffer it computed and
\* published is dbMin in every bin (before that, no pass has run).
C15_SilenceIsFloor ==
    (~feed.tagged /\ host.samplerate = 48000)
        => /\ Len(feed.arrived) < FftSize => feed.passes = 0
           /\ Len(feed.arrived) = FftSize =>
                  /\ feed.passes = 1
                  /\ \A i \in 1..Bins : sd.new_scope_data_[i] = dbMin
                  /\ osc.scope_mode_ = "SPECTRUM" =>
                         \A i \in 1..Bins : osc.scope_data_[i] = dbMin

\* fftSize zeros have arrived in two blocks, with a bin in the band
C15_Witness ==
    /\ ~feed.tagged /\ host.samplerate = 48000
    /\ Len(feed.arrived) = FftSize
    /\ feed.pulls = 2
    /\ feed.passes = 1
    /\ \E i \in 1..Bins : InBand(i, host)
    /\ \A i \in 1..Bins : osc.scope_data_[i] = dbMin

\* C14 as stated: after n samples floor(n / fftSize) passes have run, pass
\* k analysed samples (k - 1) * fftSize + 1 .. k * fftSize in arrival
\* order, the samples after the last window are at the front of fft_data_,
\* and no write went beyond fft_data_.
C14_PassPerFullRing ==
    LET n == Len(feed.arrived)
    IN  /\ feed.passes = n \div FftSize
        /\ \A k \in 1..feed.passes :
               feed.windows[k] = SubSeq(feed.arrived, (k - 1) * FftSize + 1, k * FftSize)
        /\ osc.pos_ = n % FftSize
        /\ \A i \in 1..osc.pos_ : osc.fft_data_[i] = feed.arrived[n - osc.pos_ + i]
        /\ ~osc.oob

----------------------------------------------------------------------------
----------------------------------------------------------------------------
\* the column written last holds the least and the greatest sample received
\* since the previous pixel boundary or trigger
LastColumnFaithful ==
    {wf.peaks[2 * feed.wcol + 1], wf.peaks[2 * feed.wcol + 2]}
        = {jmap(feed.wlo, host.height), jmap(feed.whi, host.height)}

\* C18: with a monotonic ramp and counterSpeed = 0.5 every column written
\* holds exactly the minimum and the maximum of the samples received since
\* the previous pixel boundary (or trigger), from the very first column
\* after construction on.
C18_EveryColumnHoldsTrueExtrema ==
    (feed.kind = "ramp" /\ feed.wrote >= 1) => LastColumnFaithful

----------------------------------------------------------------------------
\* C19: two engines run on the same samples whose parameters differ only in
\* trigger_speed while the type is not Internal, or only in trigger_level
\* while the type is neither Rising nor Falling, have the same trigger
\* events, the same decimation buffers and the same runtime state.
C19_UnusedDialsIgnored ==
    feed.kind = "twin" =>
        /\ TriggerEvents(obs.log) = TriggerEvents(feed.tobs.log)
        /\ DecimationBuffers(wf) = DecimationBuffers(twin)
        /\ RuntimeState(wf) = RuntimeState(twin)

\* two Rising engines with different trigger_speed, after an accepted
\* trigger and a written column
C19_Witness ==
    /\ feed.kind = "twin"
    /\ wf.params_.trigger_type = "kTriggerRising"
    /\ wf.params_.trigger_speed # twin.params_.trigger_speed
    /\ feed.accepted >= 1
    /\ wf.index >= 1
    /\ feed.n = MaxTwin

----------------------------------------------------------------------------
\* a step that is a call of audioOut.unsubscribe(): the worker's idle path,
\* visibilityChanged of a component that was hidden, the destructor's last
\* statement
UnsubscribeStep ==
    \/ wk.pc = "unsubscribe" /\ wk'.pc = "wait"
    \/ ui.pc = "idle" /\ ui.visible /\ ~ui'.visible
    \/ ui.pc = "unsubscribe" /\ ui'.pc = "gone"

\* what the source shows: the subscription and the frames it holds
Source(a) == <<a.subscribed, a.left, a.right>>

\* C20: unsubscribe called on a source that is already unsubscribed, by the
\* worker's idle path, by visibilityChanged or by the destructor, leaves the
\* source unsubscribed and changes nothing else of the source, of the
\* engine or of the overlay's data.
C20_RedundantUnsubscribeHarmless ==
    [][(UnsubscribeStep /\ ~audio.subscribed)
          => /\ ~audio'.subscribed
             /\ Source(audio)' = Source(audio)
             /\ wf' = wf /\ osc' = osc /\ sd' = sd /\ wstore' = wstore]_vars

\* the worker's idle path has called unsubscribe on a source that
\* visibilityChanged had unsubscribed while it held frames, and waits
C20_Witness ==
    /\ "worker" \in audio.redundant
    /\ ~ui.visible
    /\ Len(audio.left) > 0
    /\ ~audio.subscribed
    /\ wk.pc = "wait"

----------------------------------------------------------------------------
\* the worker between the test of channel_selection_ and the end of the
\* idle path
IdlePath == {"unsubscribe", "wait", "blocked", "woken", "subscribe"}

\* C21: a worker that finds the selection Off unsubscribes and blocks in the
\* wait; it is never left blocked while the selection is not Off (no lost
\* wakeup), it passes the wait only with the selection not Off or shutdown
\* requested, and once the selection is not Off it resubscribes and gets
\* back to draining, unless the selection is set Off again or shutdown is
\* requested before it does.
C21_IdleWakeProtocol ==
    /\ [][(wk.pc = "lock" /\ wk'.pc # "lock")
            => wk'.pc = (IF osc.channel_selection_ = "OFF" THEN "unsubscribe"
                         ELSE "popall")]_vars
    /\ [][wk'.pc = "blocked" => wk.pc \in {"wait", "blocked"}]_vars
    /\ [](wk.pc = "blocked" => osc.channel_selection_ = "OFF")
    /\ [](wk.pc = "subscribe" => (osc.channel_selection_ # "OFF" \/ osc.complete_))
    /\ [][(wk.pc = "subscribe" /\ wk'.pc # "subscribe")
            => (audio'.subscribed /\ wk'.pc = "loop")]_vars
    /\ (wk.pc \in IdlePath /\ osc.channel_selection_ # "OFF")
          ~> (wk.pc = "popall" \/ osc.channel_selection_ = "OFF" \/ osc.complete_)

\* the worker, back from a wait it had blocked in, drains again with the
\* source subscribed
C21_Witness ==
    /\ wk.idle = "resumed"
    /\ wk.pc = "popall"
    /\ osc.channel_selection_ # "OFF" /\ ~osc.complete_
    /\ audio.subscribed

----------------------------------------------------------------------------
\* the worker blocked in the wait of the idle path, the selection Off and
\* shutdown not requested
BlockedInOffWait ==
    wk.pc = "blocked" /\ osc.channel_selection_ = "OFF" /\ ~osc.complete_

\* C22: while the worker is blocked in the Off wait the audio source is not
\* subscribed, in every reachable state, also after visibility changes.
C22_NotSubscribedWhileBlocked == BlockedInOffWait => ~audio.subscribed

----------------------------------------------------------------------------
\* the operations of the message thread that are waiting for data_lock_
AwaitsDataLock == {"toggleChannel", "updateDrawing", "changeScopeType", "turnOff"}

\* C23: after a drain that returned no samples the worker sleeps without
\* the shared-state lock and tests complete_ again before the next drain;
\* toggleChannel, updateDrawing, changeScopeType and the destructor can take
\* the lock while it sleeps.
C23_IdleSleepWithoutLock ==
    /\ [][(wk.pc = "popall" /\ wk'.pc # "popall" /\ audio.left = << >>)
            => (wk'.pc = "sleep" /\ lk'.data_lock_ = "free")]_vars
    /\ [](wk.pc = "sleep" => lk.data_lock_ # "worker")
    /\ [](wk.pc = "sleep" =>
            /\ ui.pc = "toggleChannel" => ENABLED UiToggleChannel
            /\ ui.pc = "updateDrawing" => ENABLED UiUpdateDrawing
            /\ ui.pc = "changeScopeType" => ENABLED UiChangeScopeType
            /\ ui.pc = "turnOff" => ENABLED UiDtorTurnOff)
    /\ [][(wk.pc = "sleep" /\ wk'.pc # "sleep") => wk'.pc = "loop"]_vars
    /\ [][(wk.pc = "loop" /\ wk'.pc # "loop")
            => wk'.pc = (IF osc.complete_ THEN "done" ELSE "lock")]_vars
    /\ [][(wk'.pc = "popall" /\ wk.pc # "popall") => wk.pc = "lock"]_vars

\* the worker asleep after an empty drain while the destructor, having set
\* complete_, is about to take the lock
C23_Witness ==
    /\ wk.pc = "sleep"
    /\ ui.pc = "turnOff"
    /\ lk.data_lock_ = "free"
    /\ audio.subscribed
    /\ audio.pushed > 0

----------------------------------------------------------------------------
(* The sweep of the waveform engine, in SweepSpec.                         *)

\* the step of a sample in which its trigger is accepted
TriggerStep ==
    feed.kind = "sweep" /\ feed.phase = "idle" /\ feed'.phase = "mid" /\ feed'.acc

AfterTriggerSample ==
    feed.kind = "sweep" /\ feed.phase = "idle" /\ feed.n > 0 /\ feed.acc

TrackStep ==
    feed.kind = "sweep" /\ feed.phase = "mid" /\ feed'.phase = "idle"

\* a sample has been processed and the worker is not inside the loop body
AfterSample == feed.kind = "sweep" /\ feed.phase = "idle" /\ feed.n > 0

\* C26 as stated: after each sample the pixel counter lies in [0, 1), for
\* every counter speed.
C26_CounterInUnitInterval ==
    AfterSample => (wf.counter >= 0 /\ wf.counter < CounterOne)

\* C26: each sample adds counterSpeed to the pixel counter and takes
\* exactly 1.0 off when the sum has reached 1.0, once per sample at most.
\* The counter is never negative.  With counterSpeed < 1 and a counter of
\* at most 1.0 before the sample it lies in [0, 1) after it; with
\* counterSpeed >= 1 every sample is a pixel boundary and the counter never
\* decreases: it grows by counterSpeed - 1 per sample until the next
\* accepted trigger sets it to 1.0.
C26_CounterLosesOnePerBoundary ==
    /\ [](feed.kind = "sweep" => wf.counter >= 0)
    /\ [][TrackStep =>
            LET cs == counterSpeed(wf.params_)
                c == wf.counter + cs
            IN  /\ wf'.counter = IF c >= CounterOne THEN c - CounterOne ELSE c
                /\ (cs < CounterOne /\ wf.counter <= CounterOne)
                      => wf'.counter < CounterOne
                /\ cs >= CounterOne
                      => /\ wf'.counter = wf.counter + cs - CounterOne
                         /\ wf'.counter >= wf.counter
                         /\ feed'.fresh]_vars
    /\ [][TriggerStep => wf'.counter = CounterOne]_vars

\* three samples at 2 pixels per sample since the counter was 1.0: the
\* counter stands at 4.0
C26_Witness ==
    /\ AfterSample
    /\ counterSpeed(wf.params_) = 2 * CounterOne
    /\ wf.index = 3
    /\ wf.counter = CounterOne + 3 * CounterOne

\* C27 as stated: the write index is between 0 and the display width in
\* every reachable state.
C27_IndexWithinWidth ==
    feed.kind = "sweep" => (wf.index >= 0 /\ wf.index <= host.width)

\* C27: the write index is never negative and never above the greatest
\* width the display had since the last accepted trigger (or since
\* construction).  It advances by one column at a time, only at the end of
\* a sample and only from a value below the width; a bounds change leaves
\* it as it is, so that after a shrinking resize it may exceed the width.
\* While it does, no sample writes a column, and the next accepted trigger
\* sets it to 0.
C27_IndexAdvancesBelowWidth ==
    /\ [](feed.kind = "sweep" => (wf.index >= 0 /\ wf.index <= feed.wmax))
    /\ [][(feed.kind = "sweep" /\ wf'.index > wf.index) =>
             (TrackStep /\ wf'.index = wf.index + 1 /\ wf.index < host.width)]_vars
    /\ [][host'.width # host.width => wf'.index = wf.index]_vars
    /\ [][(TrackStep /\ wf.index >= host.width) =>
             (wf'.index = wf.index /\ wf'.peaks = wf.peaks)]_vars
    /\ [][TriggerStep => wf'.index = 0]_vars

\* a sample is being processed with the index above the width, after the
\* display shrank in the middle of a sweep
C27_Witness ==
    /\ feed.kind = "sweep" /\ feed.phase = "mid" /\ ~feed.acc
    /\ feed.resizes = 1
    /\ wf.index > host.width

----------------------------------------------------------------------------
(* The buffers and the width, with the threads of Spec.                    *)

\* the worker's positions in process() at which getWidth() bounds an access
\* to peaks or copy: the zero fill, the copy loop and the column write
UsesWidth == {"zero", "copy", "track"}

\* C28: no access of process() to peaks or copy is at or beyond the length
\* of the vector, and whenever the worker is about to use the width as a
\* bound both vectors hold exactly 2 * width points.
C28_BuffersMatchWidth ==
    /\ ~wf.oob
    /\ wk.pc \in UsesWidth =>
          /\ Len(wf.peaks) = 2 * host.width
          /\ Len(wf.copy) = 2 * host.width

----------------------------------------------------------------------------
(* The position in the spectrum accumulator, in SpectrumSpec.              *)

\* C29: after every iteration of the worker pos_ is at least 0 and below
\* the FFT length, and no write into fft_data_ went to a position outside
\* 0..fftSize-1, whatever the lengths of the drained blocks and whatever
\* scope mode switches happened in between.
C29_RingPositionInRange ==
    feed.kind = "spectrum" =>
        /\ osc.pos_ >= 0
        /\ osc.pos_ < FftSize
        /\ ~osc.oob

----------------------------------------------------------------------------
(* The order of the two points of a column, in SweepSpec.                  *)

\* the sample processed last wrote a column
ColumnWritten == AfterSample /\ feed.wrote

\* C30: a column is written as (min, max) when of the two running extrema
\* the max changed last and as (max, min) when the min changed last, min
\* and max being the least and the greatest sample received since the
\* previous pixel boundary or trigger; a column fed by a single sample holds
\* that sample in both points.
C30_SecondPointIsLastExtremum ==
    ColumnWritten =>
        LET c == feed.wcol
            min_Y == jmap(feed.lo, host.height)
            max_Y == jmap(feed.hi, host.height)
        IN  /\ wf.peaks[2 * c + 1] = IF feed.last = "max" THEN min_Y ELSE max_Y
            /\ wf.peaks[2 * c + 2] = IF feed.last = "max" THEN max_Y ELSE min_Y
            /\ feed.cnt = 1 =>
                  /\ wf.peaks[2 * c + 1] = jmap(feed.sample, host.height)
                  /\ wf.peaks[2 * c + 2] = jmap(feed.sample, host.height)

----------------------------------------------------------------------------
(* The channel mix of pullData, in MixSpec.                                *)

\* the worker's positions from the dispatch of a block to the end of the
\* iteration
Dispatched ==
    {"process", "sample", "zero", "copy", "reset", "track", "return",
     "accumulate", "publish", "publishing", "carry"}

\* the step in which the drained block is mixed and dispatched
DispatchStep == wk.pc = "popall" /\ wk'.pc \in {"process", "accumulate"}

\* C31: the block dispatched to the active engine has one sample per
\* drained frame: (L + R) / 2 with the selection Stereo, L with Left, R with
\* Right, the selection being the one read when the iteration took the
\* lock, which is still channel_selection_ at the dispatch; the block stays
\* as it is until the iteration ends, and nothing is dispatched with the
\* selection Off.
C31_ChannelMix ==
    /\ [][(wk.pc = "lock" /\ wk'.pc # "lock") =>
             /\ wk'.cs = osc.channel_selection_
             /\ wk'.cs = "OFF" => wk'.pc = "unsubscribe"]_vars
    /\ [][DispatchStep =>
             LET L == audio.left
                 R == audio.right
             IN  /\ wk.cs = osc.channel_selection_
                 /\ wk.cs \in {"STEREO", "LEFT", "RIGHT"}
                 /\ L # << >>
                 /\ Len(wk'.data) = Len(L)
                 /\ \A i \in 1..Len(L) :
                       /\ wk.cs = "STEREO" => 2 * wk'.data[i] = L[i] + R[i]
                       /\ wk.cs = "LEFT" => wk'.data[i] = L[i]
                       /\ wk.cs = "RIGHT" => wk'.data[i] = R[i]
                 /\ wk'.pc = IF osc.scope_mode_ = "WAVEFORM"
                             THEN "process" ELSE "accumulate"]_vars
    /\ [][(wk'.pc \in Dispatched /\ wk.pc \notin Dispatched) => DispatchStep]_vars
    /\ [][(wk.pc \in Dispatched /\ wk'.pc \in Dispatched) => wk'.data = wk.data]_vars
    /\ [](wk.pc \in Dispatched =>
             (osc.channel_selection_ # "OFF" /\ wk.cs = osc.channel_selection_))

\* the left button was switched off and the waveform engine is processing
\* the right channel of the four-frame block
C31_Witness ==
    /\ feed.kind = "mix"
    /\ wk.pc = "sample" /\ wk.cs = "RIGHT"
    /\ osc.channel_selection_ = "RIGHT"
    /\ wk.data = <<0, 2, -4, 2>>

----------------------------------------------------------------------------
(* A block in WaveformDisplay::process, with the threads of Spec.          *)

\* what a block is processed under: the engine's parameters, the scope
\* mode and the channel selection.  (complete_ is an atomic the destructor
\* stores without a lock; process() does not read it.)
BlockContext == <<wf.params_, osc.scope_mode_, osc.channel_selection_>>

\* C32: a block handed to process() runs to completion under one parameter
\* snapshot.  From the first sample to the return the worker holds lock_
\* and data_lock_; no step in between changes the engine's parameters, the
\* scope mode, the channel selection or the block (not even a destructor
\* that has stored complete_ in the meantime); the
\* samples are taken one after the other and process() returns only after
\* the last one (or at once, when frozen); and a block that was started is
\* finished.
C32_BlockRunsUnderOneSnapshot ==
    /\ [](wk.pc \in InProcess =>
             (lk.lock_ = "worker" /\ lk.data_lock_ = "worker"))
    /\ [][(wk.pc \in InProcess /\ wk'.pc \in InProcess) =>
             (BlockContext' = BlockContext /\ wk'.data = wk.data)]_vars
    /\ [][(wk.pc \in InProcess /\ wk'.pc \notin InProcess) =>
             (wk.pc = "return" /\ wk'.pc = "loop")]_vars
    /\ [][(wk.pc = "track" /\ wk'.pc # "track") =>
             IF wk.i < Len(wk.data)
             THEN wk'.pc = "sample" /\ wk'.i = wk.i + 1
             ELSE wk'.pc = "return"]_vars
    /\ [][(wk'.pc = "return" /\ wk.pc # "return") =>
             \/ wk.pc = "track" /\ wk.i = Len(wk.data)
             \/ wk.pc = "process" /\ wf.params_.freeze]_vars
    /\ (wk.pc \in InProcess) ~> (wk.pc = "loop")

\* the worker is in the middle of a block of four samples while a redraw
\* tick, with an edit waiting in the store, waits for data_lock_
C32_Witness ==
    /\ wk.pc = "sample" /\ wk.i = 3 /\ Len(wk.data) = FftSize
    /\ ui.pc = "updateDrawing"
    /\ wstore.params_changed_
    /\ wstore.params_ # wf.params_

----------------------------------------------------------------------------
(* The order of the locks, in LockSpec.                                    *)

Threads == {"worker", "ui", "setter"}

\* the locks a thread holds
Held(t) == {l \in DOMAIN lk : lk[l] = t}

\* the lock a thread is about to take at its position ("none" if none)
Wants(t) ==
    CASE t = "worker" ->
           (CASE wk.pc \in {"lock", "woken"} -> "data_lock_"
              [] wk.pc = "process" -> "lock_"
              [] wk.pc = "publish" -> "spectrum_lock_"
              [] OTHER -> "none")
      [] t = "ui" ->
           (CASE ui.pc \in {"tick", "toggleChannel", "changeScopeType"} -> "data_lock_"
              [] ui.pc = "getParamsIfDirty" -> "params_lock_"
              [] ui.pc = "apply" -> "lock_"
              [] ui.pc = "paint" -> (IF osc.scope_mode_ = "WAVEFORM"
                                     THEN "lock_" ELSE "spectrum_lock_")
              [] OTHER -> "none")
      [] OTHER -> IF ed.pc = "lock" THEN "params_lock_" ELSE "none"

\* the thread has to wait: the lock it is about to take is another's
Blocked(t) == Wants(t) # "none" /\ lk[Wants(t)] \notin {"free", t}

\* the thread has no callback or iteration in progress
AtRest(t) ==
    CASE t = "worker" -> wk.pc \in {"loop", "sleep", "blocked", "done"}
      [] t = "ui" -> ui.pc = "idle"
      [] OTHER -> ed.pc = "idle"

\* some step of the thread can be taken
CanRun(t) ==
    CASE t = "worker" -> ENABLED WorkerRun
      [] t = "ui" -> ENABLED UiLockRun
      [] OTHER -> ENABLED EdRun

\* C33: the locks are taken in one order.  A thread about to take
\* data_lock_ holds no lock, and a thread about to take a display lock or
\* the lock of a parameter store holds at most data_lock_; a thread at rest
\* holds none.  So no set of threads waits in a circle, each for a lock
\* that the next one holds, and a thread that holds a lock and does not
\* have to wait for one always has a step to take.
C33_LockOrderAcyclic ==
    /\ \A t \in Threads :
          /\ Wants(t) = "data_lock_" => Held(t) = {}
          /\ Wants(t) \notin {"none", "data_lock_"} => Held(t) \subseteq {"data_lock_"}
          /\ AtRest(t) => Held(t) = {}
          /\ (Held(t) # {} /\ ~Blocked(t)) => CanRun(t)
          /\ (~AtRest(t) /\ ~Blocked(t)) => CanRun(t)
    /\ \A S \in (SUBSET Threads) \ {{}} :
          \E t \in S : ~Blocked(t) \/ lk[Wants(t)] \notin S

\* a chain of waits: the worker waits for data_lock_, which the redraw tick
\* holds while it waits for params_lock_, which a setter holds
C33_Witness ==
    /\ wk.pc = "lock" /\ lk.data_lock_ = "ui"
    /\ ui.pc = "getParamsIfDirty" /\ lk.params_lock_ = "setter"
    /\ Blocked("worker") /\ Blocked("ui") /\ ~Blocked("setter")

----------------------------------------------------------------------------
(* Edits that wait in the store, in ParamSpec.                             *)

\* updateDrawing returns without looking at the store
Skipping == ui.pc = "tick" /\ ui'.pc = "idle"

\* the tick would look at the waveform store
Active == osc.channel_selection_ # "OFF" /\ osc.scope_mode_ = "WAVEFORM"

\* C34: no edit is lost.  A redraw tick that runs with the selection Off or
\* in the other scope mode leaves the store, its dirty flag and the engine
\* as they are; the flag is cleared by nothing but a tick that takes the
\* snapshot; a tick that runs with a selection other than Off in the
\* store's mode looks at the store, takes the snapshot if the flag is set
\* and puts it into the engine.  So whenever no setter and no tick is under
\* way, every edit is either in the engine or waiting in a dirty store.
C34_NoEditLost ==
    /\ [][Skipping => (~Active /\ wstore' = wstore /\ wf' = wf)]_vars
    /\ [][(wstore.params_changed_ /\ ~wstore'.params_changed_) => Taking]_vars
    /\ [][(ui.pc = "tick" /\ ui'.pc # "tick" /\ Active) =>
             ui'.pc = "getParamsIfDirty"]_vars
    /\ [][(ui.pc = "getParamsIfDirty" /\ ui'.pc # "getParamsIfDirty"
              /\ wstore.params_changed_) => Taking]_vars
    /\ [][(ui.pc = "apply" /\ ui'.pc # "apply") =>
             (wf'.params_ = ui.snapshot /\ pr.taken > 0
                /\ ui.snapshot = pr.history[pr.taken + 1])]_vars
    /\ [](ed.pc = "idle" /\ ui.pc \in {"idle", "tick"} =>
             (wstore.params_changed_ \/ wf.params_ = wstore.params_))

\* an edit was made and its setter returned, and a tick that began after it
\* has run with the selection Off: the store is still dirty and the engine
\* does not have the edit yet
C34_Witness ==
    /\ pr.last = "skipped" /\ ui.pc = "idle" /\ ed.pc = "idle"
    /\ osc.channel_selection_ = "OFF"
    /\ pr.atBegin >= 1
    /\ wstore.params_changed_
    /\ wf.params_ # wstore.params_

----------------------------------------------------------------------------
\* the run of main is over: it returned, or it crashed
MainOver == feed.kind = "main" /\ feed.pc \in {"exit", "crashed"}

\* the command line chose --non-test: main took that branch
NonTestMode == argc(feed.args) > 2 /\ feed.args[1] = "--non-test"

\* --filter-analyzer without both a type and a subtype
FilterAnalyzerShort ==
    /\ NonTestMode
    /\ feed.args[2] = "--filter-analyzer"
    /\ argc(feed.args) < 5

Called(name) == \E k \in DOMAIN feed.calls : feed.calls[k][1] = name

(* C35: in --non-test mode, --filter-analyzer without both a type and a    *)
(* subtype prints the usage line and returns 1, calls no analyzer and      *)
(* reads no missing argument; every other --non-test run returns 0 and     *)
(* never runs the test suite.                                              *)
C35_FilterAnalyzerNeedsBothArguments ==
    (MainOver /\ NonTestMode) =>
        IF FilterAnalyzerShort
        THEN /\ feed.pc = "exit"
             /\ feed.ret = 1
             /\ feed.out[Len(feed.out)] = "usage"
             /\ ~Called("filterAnalyzer")
             /\ ~feed.missing
        ELSE /\ feed.pc = "exit"
             /\ feed.ret = 0
             /\ ~Called("runAllTests")

=============================================================================
